---- MODULE Spec2Model ----
(***************************************************************************)
(* Model of the authorization / step-up (OTP) core of proyecto_backend.    *)
(*                                                                         *)
(* The state is what the application stores: the rows of the tables        *)
(* `usuarios` and `documentos`, the in-process rate-limit cache, the       *)
(* clock, the identities for which an access token was issued, and the     *)
(* last request with its HTTP response.  An action is one whole request:   *)
(* the route with every decorator around it.  A change made to an ORM      *)
(* object is stored only when the handler reaches db.session.commit()      *)
(* after it; Flask-SQLAlchemy drops the session at the end of the request, *)
(* so a change that no commit follows is not in the next state.            *)
(*                                                                         *)
(* A document row carries the columns the policy reads (propietario_id,    *)
(* nivel_seguridad, estado); names, file paths and usage statistics are    *)
(* left out.                                                               *)
(***************************************************************************)
EXTENDS Integers, Sequences, FiniteSets, TLC

(***************************************************************************)
(* Bounds of the model.                                                    *)
(***************************************************************************)
\* number of distinct base32 secrets pyotp.random_base32() can return
NumClaves == 2
\* number of 30-second steps the clock may advance
MaxPasos == 1
\* number of rows the table documentos may hold
MaxDocs == 1
\* number of client addresses requests come from
NumIPs == 2
\* requests of one user the server handles at the same time
NumHilos == 2
\* windows of the login limiter the clock passes through
MaxVentanas == 2
\* verification requests the client sends while requests run concurrently
MaxVerificaciones == 2

(***************************************************************************)
(* Program constants.                                                      *)
(***************************************************************************)
\* TOTP time step in seconds
PasoTOTP == 30
\* length of an OTP code
LargoCodigo == 6
\* esta_bloqueado threshold
MaxIntentosFallidos == 5
\* limitar_frecuencia of /api/auth/otp/validar
MaxIntentosValidarOTP == 10
VentanaValidarOTP == 300
\* limitar_frecuencia of /api/auth/login
MaxIntentosLogin == 5
VentanaLogin == 900

(***************************************************************************)
(* Classification model.                                                   *)
(***************************************************************************)
Roles == {"usuario", "supervisor", "admin"}
Niveles == {"publico", "confidencial", "secreto"}
Estados == {"activo", "archivado", "eliminado"}
Acciones == {"ver", "editar", "eliminar", "descargar"}

\* one account of each role, as crear_usuarios_prueba inserts them; the ids
\* number the rows of the model
Usuarios == {1, 2, 3}
RolInicial(u) == IF u = 1 THEN "admin" ELSE IF u = 2 THEN "supervisor" ELSE "usuario"

Claves == 1..NumClaves
IPs == 1..NumIPs
Hilos == 1..NumHilos

\* Python's None for an optional column or header: the empty sequence;
\* a present value v is <<v>>.  An OTP code is the sequence of its characters.
Nada == <<>>

VARIABLES
    usuarios,           \* table usuarios: id -> row
    documentos,         \* table documentos: sequence of rows, id = index
    tokens,             \* identities an access token was issued for
    ahora,              \* the clock, in seconds
    rate_limit_cache,   \* current_app._rate_limit_cache
    resp,               \* the last request and its response
    sesiones            \* db.session of the requests in flight: worker -> row it loaded

vars == <<usuarios, documentos, tokens, ahora, rate_limit_cache, resp, sesiones>>

(***************************************************************************)
(* OTP codes.                                                              *)
(***************************************************************************)
DigitosASCII == {"0", "1", "2", "3", "4", "5", "6", "7", "8", "9"}

\* str.isdigit() holds of the ASCII digits and of the other Unicode digits,
\* here U+0663 (ARABIC-INDIC DIGIT THREE), which equals no ASCII digit.
EsDigito(ch) == ch \in DigitosASCII \cup {"U+0663"}

isdigit(s) == Len(s) > 0 /\ \A i \in 1..Len(s) : EsDigito(s[i])

Digito(n) == <<"0", "1", "2", "3", "4", "5", "6", "7", "8", "9">>[(n % 10) + 1]

\* pyotp.TOTP(clave).at(t): the 6-digit code of secret k for time step paso.
\* The HMAC is replaced by a function that is injective on the model's range.
at(k, paso) == <<"0", "0", "0", Digito(k), Digito(paso \div 10), Digito(paso)>>

timecode(t) == t \div PasoTOTP

\* verify with valid_window=2
verify_ventana_2(cod, k, t) == \E i \in -2..2 : cod = at(k, timecode(t) + i)

\* pyotp.TOTP.verify(otp, valid_window=1)
verify(cod, k, t) == \E i \in -1..1 : cod = at(k, timecode(t) + i)

\* the format check written inline in the routes and decorators
formato_6_digitos(cod) == isdigit(cod) /\ Len(cod) = LargoCodigo

\* ValidadorDatos.validar_codigo_otp: strips blanks, then ^\d{6}$
validar_codigo_otp(cod) ==
    /\ cod # Nada
    /\ LET limpio == SelectSeq(cod, LAMBDA ch : ch # " ")
       IN  Len(limpio) = LargoCodigo /\ \A i \in 1..Len(limpio) : EsDigito(limpio[i])

\* codes a client submits: none, the codes of every secret for the steps
\* around the clock, and malformed ones
CodigosMalFormados ==
    { <<"1", "2", "3">>,
      <<"0", "0", "0", "1", "0", "a">>,
      <<"0", "0", "0", "1", " ", "0", "2">>,
      <<"U+0663", "U+0663", "U+0663", "U+0663", "U+0663", "U+0663">> }

CodigosTOTP == { at(k, p) : k \in Claves, p \in 1..(3 + MaxPasos) }

CodigosEnviados == {Nada} \cup CodigosTOTP \cup CodigosMalFormados

\* errors a collaborator can raise during a request
Fallas == {"ninguna", "bd_usuario", "bd_documento", "totp"}

(***************************************************************************)
(* GestorOTP                                                               *)
(***************************************************************************)
\* validar_otp_codigo whose except branch would answer es_valido True
validar_otp_codigo_abierto(cod, k, t, falla) ==
    IF falla = "totp" THEN TRUE ELSE verify(cod, k, t)

\* GestorOTP.validar_otp_codigo(...)['es_valido']; an exception inside it
\* is caught and reported as not valid
validar_otp_codigo(cod, k, t, falla) ==
    IF falla = "totp" THEN FALSE ELSE verify(cod, k, t)

\* requiere_otp_para_accion whose matrix lets secret documents be viewed
\* without a code
requiere_otp_para_accion_ver_secreto_libre(accion, nivel_seguridad, rol_usuario) ==
    IF nivel_seguridad = "secreto" THEN
        accion \in {"eliminar", "descargar"}
    ELSE IF nivel_seguridad = "confidencial" THEN
        IF accion = "eliminar" THEN TRUE
        ELSE IF accion = "descargar" THEN rol_usuario = "usuario"
        ELSE FALSE
    ELSE IF nivel_seguridad = "publico" THEN
        IF accion = "eliminar" THEN rol_usuario # "admin" ELSE FALSE
    ELSE FALSE

\* requiere_otp_para_accion whose matrix asks every role for a code to
\* download a confidential document
requiere_otp_para_accion_descarga_para_todos(accion, nivel_seguridad, rol_usuario) ==
    IF nivel_seguridad = "secreto" THEN
        accion \in {"ver", "eliminar", "descargar"}
    ELSE IF nivel_seguridad = "confidencial" THEN
        accion \in {"eliminar", "descargar"}
    ELSE IF nivel_seguridad = "publico" THEN
        IF accion = "eliminar" THEN rol_usuario # "admin" ELSE FALSE
    ELSE FALSE

\* requiere_otp_para_accion whose two lookups default to True
requiere_otp_para_accion_requerido_por_defecto(accion, nivel_seguridad, rol_usuario) ==
    IF nivel_seguridad = "secreto" THEN
        TRUE
    ELSE IF nivel_seguridad = "confidencial" THEN
        IF accion = "ver" THEN FALSE
        ELSE IF accion = "descargar" THEN rol_usuario = "usuario"
        ELSE TRUE
    ELSE IF nivel_seguridad = "publico" THEN
        IF accion = "eliminar" THEN rol_usuario # "admin"
        ELSE accion \notin {"ver", "descargar"}
    ELSE TRUE

\* GestorOTP.requiere_otp_para_accion
requiere_otp_para_accion(accion, nivel_seguridad, rol_usuario) ==
    IF nivel_seguridad = "secreto" THEN
        accion \in {"ver", "eliminar", "descargar"}
    ELSE IF nivel_seguridad = "confidencial" THEN
        IF accion = "eliminar" THEN TRUE
        ELSE IF accion = "descargar" THEN rol_usuario = "usuario"
        ELSE FALSE
    ELSE IF nivel_seguridad = "publico" THEN
        IF accion = "eliminar" THEN rol_usuario # "admin" ELSE FALSE
    ELSE FALSE

(***************************************************************************)
(* Usuario                                                                 *)
(***************************************************************************)
UsuarioNuevo(u) ==
    [ id |-> u, rol |-> RolInicial(u), activo |-> TRUE,
      intentos_login_fallidos |-> 0,
      clave_otp_base32 |-> Nada, otp_habilitado |-> FALSE,
      fecha_ultimo_otp |-> Nada ]

\* es_admin that would compare with the role supervisor
es_admin_supervisor(usr) == usr.rol = "supervisor"

es_admin(usr) == usr.rol = "admin"
es_supervisor(usr) == usr.rol \in {"supervisor", "admin"}

\* puede_acceder_documento whose supervisors reach every level
puede_acceder_documento_supervisor_todo(usr, doc) ==
    \/ es_admin(usr)
    \/ doc.propietario_id = usr.id
    \/ doc.nivel_seguridad = "publico"
    \/ es_supervisor(usr)

puede_acceder_documento(usr, doc) ==
    \/ es_admin(usr)
    \/ doc.propietario_id = usr.id
    \/ doc.nivel_seguridad = "publico"
    \/ (es_supervisor(usr) /\ doc.nivel_seguridad = "confidencial")

\* puede_modificar_documento without its test of the owner
puede_modificar_documento_sin_propietario(usr, doc) ==
    \/ es_admin(usr)
    \/ (es_supervisor(usr) /\ doc.nivel_seguridad # "secreto")

\* puede_modificar_documento whose supervisors modify confidential documents
\* only
puede_modificar_documento_solo_confidencial(usr, doc) ==
    \/ es_admin(usr)
    \/ doc.propietario_id = usr.id
    \/ (es_supervisor(usr) /\ doc.nivel_seguridad = "confidencial")

puede_modificar_documento(usr, doc) ==
    \/ es_admin(usr)
    \/ doc.propietario_id = usr.id
    \/ (es_supervisor(usr) /\ doc.nivel_seguridad # "secreto")

\* puede_eliminar_documento that asks es_supervisor in place of es_admin
puede_eliminar_documento_supervisor(usr, doc) ==
    es_supervisor(usr) \/ doc.propietario_id = usr.id

puede_eliminar_documento(usr, doc) ==
    es_admin(usr) \/ doc.propietario_id = usr.id

\* esta_bloqueado with > in place of >=
esta_bloqueado_tras_seis(usr) == usr.intentos_login_fallidos > MaxIntentosFallidos

esta_bloqueado(usr) == usr.intentos_login_fallidos >= MaxIntentosFallidos

\* validar_otp without the test of otp_habilitado
validar_otp_sin_estado(usr, cod, t, falla) ==
    IF usr.clave_otp_base32 = Nada THEN
        [ok |-> FALSE, usr |-> usr, verif |-> FALSE]
    ELSE IF validar_otp_codigo(cod, usr.clave_otp_base32[1], t, falla) THEN
        [ok |-> TRUE, usr |-> [usr EXCEPT !.fecha_ultimo_otp = <<t>>], verif |-> TRUE]
    ELSE
        [ok |-> FALSE, usr |-> usr, verif |-> TRUE]

\* validar_otp that clears the count of failed logins when it accepts a code
validar_otp_reinicia_intentos(usr, cod, t, falla) ==
    IF ~usr.otp_habilitado \/ usr.clave_otp_base32 = Nada THEN
        [ok |-> FALSE, usr |-> usr, verif |-> FALSE]
    ELSE IF validar_otp_codigo(cod, usr.clave_otp_base32[1], t, falla) THEN
        [ok |-> TRUE,
         usr |-> [usr EXCEPT !.fecha_ultimo_otp = <<t>>,
                             !.intentos_login_fallidos = 0],
         verif |-> TRUE]
    ELSE
        [ok |-> FALSE, usr |-> usr, verif |-> TRUE]

\* validar_otp that refuses every code while the last accepted one is at
\* most one step old
validar_otp_sin_repeticion(usr, cod, t, falla) ==
    IF ~usr.otp_habilitado \/ usr.clave_otp_base32 = Nada THEN
        [ok |-> FALSE, usr |-> usr, verif |-> FALSE]
    ELSE IF /\ validar_otp_codigo(cod, usr.clave_otp_base32[1], t, falla)
            /\ \/ usr.fecha_ultimo_otp = Nada
               \/ timecode(usr.fecha_ultimo_otp[1]) < timecode(t) - 1 THEN
        [ok |-> TRUE, usr |-> [usr EXCEPT !.fecha_ultimo_otp = <<t>>], verif |-> TRUE]
    ELSE
        [ok |-> FALSE, usr |-> usr, verif |-> TRUE]

\* Usuario.validar_otp: [ok, usr]: the verdict and the row as committed
validar_otp(usr, cod, t, falla) ==
    IF ~usr.otp_habilitado \/ usr.clave_otp_base32 = Nada THEN
        [ok |-> FALSE, usr |-> usr, verif |-> FALSE]
    ELSE IF validar_otp_codigo(cod, usr.clave_otp_base32[1], t, falla) THEN
        [ok |-> TRUE, usr |-> [usr EXCEPT !.fecha_ultimo_otp = <<t>>], verif |-> TRUE]
    ELSE
        [ok |-> FALSE, usr |-> usr, verif |-> TRUE]

\* validar_otp_con_debug that asks Usuario.validar_otp, which answers only for
\* an enabled row
validar_otp_con_debug_habilitado(usr, cod, t, falla) ==
    validar_otp(usr, cod, t, falla).ok

\* Usuario.validar_otp_con_debug: the verdict; the row is changed by the caller
validar_otp_con_debug(usr, cod, t, falla) ==
    IF usr.clave_otp_base32 = Nada THEN FALSE
    ELSE validar_otp_codigo(cod, usr.clave_otp_base32[1], t, falla)

\* configurar_otp that would leave otp_habilitado as it finds it
configurar_otp_sin_desactivar(usr, k) ==
    [usr EXCEPT !.clave_otp_base32 = <<k>>]

\* Usuario.configurar_otp with the secret k that random_base32() returned
configurar_otp(usr, k) ==
    [usr EXCEPT !.clave_otp_base32 = <<k>>, !.otp_habilitado = FALSE]

\* the reset without its line usuario.clave_otp_base32 = None
resetear_otp_conserva_clave(usr) ==
    [usr EXCEPT !.otp_habilitado = FALSE, !.fecha_ultimo_otp = Nada]

\* the reset without its line usuario.otp_habilitado = False
resetear_otp_parcial(usr) ==
    [usr EXCEPT !.clave_otp_base32 = Nada, !.fecha_ultimo_otp = Nada]

\* the block of resetear_configuracion_otp that clears the OTP columns
resetear_otp(usr) ==
    [usr EXCEPT !.otp_habilitado = FALSE, !.clave_otp_base32 = Nada,
                !.fecha_ultimo_otp = Nada]

\* the block of configurar_otp_inicial that activates OTP
activar_otp(usr, t) ==
    [usr EXCEPT !.otp_habilitado = TRUE, !.fecha_ultimo_otp = <<t>>]

\* Usuario.activar_otp_con_validacion: [ok, usr]: what it returns and the row
\* as committed.  It asks self.validar_otp, so the row it activates is the
\* row validar_otp committed.
activar_otp_con_validacion(usr, cod, t, falla) ==
    IF usr.clave_otp_base32 = Nada THEN [ok |-> FALSE, usr |-> usr]
    ELSE LET v == validar_otp(usr, cod, t, falla)
         IN  IF v.ok THEN [ok |-> TRUE, usr |-> activar_otp(v.usr, t)]
             ELSE [ok |-> FALSE, usr |-> usr]

\* Usuario.registrar_intento_fallido
registrar_intento_fallido(usr) ==
    [usr EXCEPT !.intentos_login_fallidos = @ + 1]

(***************************************************************************)
(* Responses.  estatus is the HTTP status, codigo the 'codigo' of the JSON *)
(* body (for a body without one, its 'error' text, and "OK" for a 2xx      *)
(* answer); verif tells whether the credential check (the TOTP check, for   *)
(* login the password check) ran for this request; doc is the document    *)
(* row as it was when the request arrived; clave is the secret the answer  *)
(* hands out.                                                              *)
(***************************************************************************)
Res(estatus, codigo) == [estatus |-> estatus, codigo |-> codigo]
Pasa == Res(0, "PASA")

FilaDoc(docs, d) == IF d \in 1..Len(docs) THEN <<docs[d]>> ELSE Nada

\* Usuario.validar_otp returned True for the code of the request r
Aceptado(r) ==
    /\ r.verif
    /\ \/ r.op = "validar_otp_route" /\ r.codigo = "OTP valido"
       \/ r.op = "obtener_documento" /\ r.estatus = 200

\* repetido: the request before this one was of the same user, carried the
\* same code and had it accepted
R(op, u, d, cod, falla, r, verif) ==
    [ op |-> op, u |-> u, d |-> d, cod |-> cod, falla |-> falla,
      doc |-> FilaDoc(documentos, d),
      estatus |-> r.estatus, codigo |-> r.codigo, verif |-> verif,
      clave |-> Nada,
      repetido |-> cod # Nada /\ Aceptado(resp) /\ resp.u = u /\ resp.cod = cod ]

SinRespuesta ==
    [ op |-> "ninguna", u |-> 0, d |-> 0, cod |-> Nada, falla |-> "ninguna",
      doc |-> Nada, estatus |-> 0, codigo |-> "", verif |-> FALSE,
      clave |-> Nada, repetido |-> FALSE ]

(***************************************************************************)
(* Decorators                                                              *)
(***************************************************************************)
\* requiere_autenticacion, after jwt_required let the request in
requiere_autenticacion(usr, falla) ==
    IF falla = "bd_usuario" THEN Res(401, "ERROR_AUTENTICACION")
    ELSE IF ~usr.activo THEN Res(401, "CUENTA_DESACTIVADA")
    ELSE Pasa

\* the permission dispatch with puede_realizar_accion starting as True
puede_realizar_accion_concedido_por_defecto(accion, usr, doc) ==
    IF accion = "ver" THEN puede_acceder_documento(usr, doc)
    ELSE IF accion = "editar" THEN puede_modificar_documento(usr, doc)
    ELSE IF accion = "eliminar" THEN puede_eliminar_documento(usr, doc)
    ELSE IF accion = "descargar" THEN puede_acceder_documento(usr, doc)
    ELSE TRUE

\* the permission dispatch of validar_acceso_documento
puede_realizar_accion(accion, usr, doc) ==
    IF accion = "ver" THEN puede_acceder_documento(usr, doc)
    ELSE IF accion = "editar" THEN puede_modificar_documento(usr, doc)
    ELSE IF accion = "eliminar" THEN puede_eliminar_documento(usr, doc)
    ELSE IF accion = "descargar" THEN puede_acceder_documento(usr, doc)
    ELSE FALSE

\* the document checks of validar_acceso_documento.  The id 0 of the URL
\* /api/documentos/0 is falsy, so `if not documento_id` answers before the
\* query; an exception of the query reaches the try of
\* requiere_autenticacion, which wraps it
cargar_documento(docs, d, falla) ==
    IF d = 0 THEN Res(400, "DOCUMENTO_ID_FALTANTE")
    ELSE IF falla = "bd_documento" THEN Res(401, "ERROR_AUTENTICACION")
    ELSE IF d \notin 1..Len(docs) THEN Res(404, "DOCUMENTO_NO_ENCONTRADO")
    ELSE IF docs[d].estado # "activo" THEN Res(410, "DOCUMENTO_NO_DISPONIBLE")
    ELSE Pasa

\* validar_acceso_documento without its permission block
validar_acceso_documento_sin_permisos(accion, usr, docs, d, falla) ==
    LET aut == requiere_autenticacion(usr, falla)
        car == cargar_documento(docs, d, falla)
    IN  IF aut # Pasa THEN aut
        ELSE IF car # Pasa THEN car
        ELSE Pasa

\* validar_acceso_documento(accion) around a handler
validar_acceso_documento(accion, usr, docs, d, falla) ==
    LET aut == requiere_autenticacion(usr, falla)
        car == cargar_documento(docs, d, falla)
    IN  IF aut # Pasa THEN aut
        ELSE IF car # Pasa THEN car
        ELSE IF ~puede_realizar_accion(accion, usr, docs[d])
             THEN Res(403, "PERMISOS_INSUFICIENTES")
        ELSE Pasa

\* limitar_frecuencia that refuses only above the maximum
limitar_frecuencia_un_intento_mas(cache, nombre, ip, maximo, ventana, t) ==
    LET limpio == [c \in DOMAIN cache |->
                     IF cache[c] # Nada /\ cache[c][1].expira < t THEN Nada ELSE cache[c]]
        clave == <<nombre, ip>>
    IN  IF limpio[clave] # Nada THEN
            IF limpio[clave][1].intentos > maximo
            THEN [pasa |-> FALSE, cache |-> limpio]
            ELSE [pasa |-> TRUE,
                  cache |-> [limpio EXCEPT ![clave] =
                               <<[intentos |-> @[1].intentos + 1, expira |-> @[1].expira]>>]]
        ELSE [pasa |-> TRUE,
              cache |-> [limpio EXCEPT ![clave] =
                           <<[intentos |-> 1, expira |-> t + ventana]>>]]

\* limitar_frecuencia(maximo, ventana) for the key (nombre, ip) at time t:
\* whether the handler runs, and the cache afterwards
limitar_frecuencia(cache, nombre, ip, maximo, ventana, t) ==
    LET limpio == [c \in DOMAIN cache |->
                     IF cache[c] # Nada /\ cache[c][1].expira < t THEN Nada ELSE cache[c]]
        clave == <<nombre, ip>>
    IN  IF limpio[clave] # Nada THEN
            IF limpio[clave][1].intentos >= maximo
            THEN [pasa |-> FALSE, cache |-> limpio]
            ELSE [pasa |-> TRUE,
                  cache |-> [limpio EXCEPT ![clave] =
                               <<[intentos |-> @[1].intentos + 1, expira |-> @[1].expira]>>]]
        ELSE [pasa |-> TRUE,
              cache |-> [limpio EXCEPT ![clave] =
                           <<[intentos |-> 1, expira |-> t + ventana]>>]]

(***************************************************************************)
(* routes/documentos.py                                                    *)
(***************************************************************************)
\* body of obtener_documento: the response, the user row as committed and
\* whether the TOTP check ran
obtener_documento_cuerpo(usr, doc, cod, t, falla) ==
    LET requiere_otp == requiere_otp_para_accion("ver", doc.nivel_seguridad, usr.rol)
        v == validar_otp(usr, cod, t, falla)
    IN  IF requiere_otp /\ cod = Nada THEN
            [res |-> Res(428, "OTP_REQUERIDO_VER"), usr |-> usr, verif |-> FALSE]
        ELSE IF requiere_otp /\ ~v.ok THEN
            [res |-> Res(401, "OTP_INVALIDO"), usr |-> usr, verif |-> v.verif]
        ELSE
            [res |-> Res(200, "OK"),
             usr |-> IF requiere_otp THEN v.usr ELSE usr,
             verif |-> requiere_otp /\ v.verif]

\* GET /api/documentos/<id>
obtener_documento(u, d, cod, falla) ==
    /\ u \in tokens
    /\ LET usr == usuarios[u]
           acc == validar_acceso_documento("ver", usr, documentos, d, falla)
       IN  IF acc # Pasa THEN
               /\ resp' = R("obtener_documento", u, d, cod, falla, acc, FALSE)
               /\ UNCHANGED usuarios
           ELSE
               LET c == obtener_documento_cuerpo(usr, documentos[d], cod, ahora, falla)
               IN  /\ resp' = R("obtener_documento", u, d, cod, falla, c.res, c.verif)
                   /\ usuarios' = [usuarios EXCEPT ![u] = c.usr]
    /\ UNCHANGED <<documentos, tokens, ahora, rate_limit_cache, sesiones>>

\* eliminar_documento_cuerpo that archives the document
eliminar_documento_cuerpo_archiva(doc) == [doc EXCEPT !.estado = "archivado"]

\* body of eliminar_documento: the row after the soft delete
eliminar_documento_cuerpo(doc) == [doc EXCEPT !.estado = "eliminado"]

\* DELETE /api/documentos/<id>
eliminar_documento(u, d, cod, falla) ==
    /\ u \in tokens
    /\ LET usr == usuarios[u]
           acc == validar_acceso_documento("eliminar", usr, documentos, d, falla)
       IN  IF acc # Pasa THEN
               /\ resp' = R("eliminar_documento", u, d, cod, falla, acc, FALSE)
               /\ UNCHANGED documentos
           ELSE
               /\ resp' = R("eliminar_documento", u, d, cod, falla, Res(200, "OK"), FALSE)
               /\ documentos' = [documentos EXCEPT ![d] = eliminar_documento_cuerpo(@)]
    /\ UNCHANGED <<usuarios, tokens, ahora, rate_limit_cache, sesiones>>

\* body of descargar_documento; archivo_existe: the file is on disk
descargar_documento_cuerpo(archivo_existe) ==
    IF ~archivo_existe THEN Res(404, "ARCHIVO_NO_ENCONTRADO") ELSE Res(200, "OK")

\* GET /api/documentos/<id>/descargar
descargar_documento(u, d, cod, falla, archivo_existe) ==
    /\ u \in tokens
    /\ LET usr == usuarios[u]
           acc == validar_acceso_documento("descargar", usr, documentos, d, falla)
       IN  resp' = R("descargar_documento", u, d, cod, falla,
                     IF acc # Pasa THEN acc ELSE descargar_documento_cuerpo(archivo_existe),
                     FALSE)
    /\ UNCHANGED <<usuarios, documentos, tokens, ahora, rate_limit_cache, sesiones>>

\* actualizar_documento_cuerpo that hands a re-classified document to the
\* user who re-classified it
actualizar_documento_cuerpo_cambia_propietario(usr, doc, nuevo_nivel, archivo_existe) ==
    IF nuevo_nivel # "" /\ nuevo_nivel # doc.nivel_seguridad THEN
        IF nuevo_nivel \notin Niveles THEN
            [res |-> Res(400, "NIVEL_SEGURIDAD_INVALIDO"), doc |-> doc]
        ELSE IF nuevo_nivel = "secreto" /\ ~(es_admin(usr) \/ es_supervisor(usr)) THEN
            [res |-> Res(403, "PERMISOS_INSUFICIENTES_NIVEL_SECRETO"), doc |-> doc]
        ELSE IF ~archivo_existe THEN
            [res |-> Res(500, "ERROR_MOVIENDO_ARCHIVO"), doc |-> doc]
        ELSE
            [res |-> Res(200, "OK"),
             doc |-> [doc EXCEPT !.nivel_seguridad = nuevo_nivel,
                                 !.propietario_id = usr.id]]
    ELSE [res |-> Res(200, "OK"), doc |-> doc]

\* body of actualizar_documento for a valid name: the response and the row
\* as committed; nuevo_nivel "" when the body gives none
actualizar_documento_cuerpo(usr, doc, nuevo_nivel, archivo_existe) ==
    IF nuevo_nivel # "" /\ nuevo_nivel # doc.nivel_seguridad THEN
        IF nuevo_nivel \notin Niveles THEN
            [res |-> Res(400, "NIVEL_SEGURIDAD_INVALIDO"), doc |-> doc]
        ELSE IF nuevo_nivel = "secreto" /\ ~(es_admin(usr) \/ es_supervisor(usr)) THEN
            [res |-> Res(403, "PERMISOS_INSUFICIENTES_NIVEL_SECRETO"), doc |-> doc]
        ELSE IF ~archivo_existe THEN
            [res |-> Res(500, "ERROR_MOVIENDO_ARCHIVO"), doc |-> doc]
        ELSE
            [res |-> Res(200, "OK"), doc |-> [doc EXCEPT !.nivel_seguridad = nuevo_nivel]]
    ELSE [res |-> Res(200, "OK"), doc |-> doc]

\* PUT /api/documentos/<id>
actualizar_documento(u, d, nuevo_nivel, falla, archivo_existe) ==
    /\ u \in tokens
    /\ LET usr == usuarios[u]
           acc == validar_acceso_documento("editar", usr, documentos, d, falla)
       IN  IF acc # Pasa THEN
               /\ resp' = R("actualizar_documento", u, d, Nada, falla, acc, FALSE)
               /\ UNCHANGED documentos
           ELSE
               LET c == actualizar_documento_cuerpo(usr, documentos[d], nuevo_nivel,
                                                    archivo_existe)
               IN  /\ resp' = R("actualizar_documento", u, d, Nada, falla, c.res, FALSE)
                   /\ documentos' = [documentos EXCEPT ![d] = c.doc]
    /\ UNCHANGED <<usuarios, tokens, ahora, rate_limit_cache, sesiones>>

(***************************************************************************)
(* routes/auth.py: OTP                                                     *)
(***************************************************************************)
\* a secret random_base32() has not returned for this row before
ClavesNuevas(usr) == { k \in Claves : usr.clave_otp_base32 # <<k>> }

\* GET|POST /api/auth/otp/generar.  usuario.configurar_otp() changes the
\* row in the session and the route returns without a commit.
generar_otp_route(u, k, qr_ok, falla) ==
    /\ u \in tokens
    /\ k \in ClavesNuevas(usuarios[u])
    /\ LET usr == usuarios[u]
           aut == requiere_autenticacion(usr, falla)
       IN  resp' = IF aut # Pasa THEN
                       R("generar_otp_route", u, 0, Nada, falla, aut, FALSE)
                   ELSE IF ~qr_ok THEN
                       R("generar_otp_route", u, 0, Nada, falla,
                         Res(500, "ERROR_CONFIGURAR_OTP"), FALSE)
                   ELSE
                       [R("generar_otp_route", u, 0, Nada, falla, Res(200, "OK"), FALSE)
                          EXCEPT !.clave = <<k>>]
    /\ UNCHANGED <<usuarios, documentos, tokens, ahora, rate_limit_cache, sesiones>>

\* configurar_otp_inicial whose PASO 2 tests the format of the code before it
\* looks for a pending secret
configurar_otp_inicial_cuerpo_formato_primero(usr, cod, k, qr_ok, t, falla) ==
    IF cod = Nada THEN
        IF ~qr_ok THEN
            [res |-> Res(500, "Error generando configuracion OTP"), usr |-> usr,
             verif |-> FALSE, clave |-> Nada]
        ELSE
            [res |-> Res(200, "OK"), usr |-> configurar_otp(usr, k),
             verif |-> FALSE, clave |-> <<k>>]
    ELSE
        IF ~formato_6_digitos(cod) THEN
            [res |-> Res(400, "Codigo debe ser de 6 digitos numericos"), usr |-> usr,
             verif |-> FALSE, clave |-> Nada]
        ELSE IF usr.clave_otp_base32 = Nada THEN
            [res |-> Res(400, "NO_HAY_CONFIGURACION_PENDIENTE"), usr |-> usr,
             verif |-> FALSE, clave |-> Nada]
        ELSE IF validar_otp_con_debug(usr, cod, t, falla) THEN
            [res |-> Res(200, "OK"), usr |-> activar_otp(usr, t),
             verif |-> TRUE, clave |-> Nada]
        ELSE
            [res |-> Res(400, "Codigo de validacion incorrecto"), usr |-> usr,
             verif |-> TRUE, clave |-> Nada]

\* body of configurar_otp_inicial for an active user: the response, the row
\* as committed, whether the TOTP check ran and the secret handed out
configurar_otp_inicial_cuerpo(usr, cod, k, qr_ok, t, falla) ==
    IF cod = Nada THEN
        \* PASO 1
        IF ~qr_ok THEN
            [res |-> Res(500, "Error generando configuracion OTP"), usr |-> usr,
             verif |-> FALSE, clave |-> Nada]
        ELSE
            [res |-> Res(200, "OK"), usr |-> configurar_otp(usr, k),
             verif |-> FALSE, clave |-> <<k>>]
    ELSE
        \* PASO 2
        IF usr.clave_otp_base32 = Nada THEN
            [res |-> Res(400, "NO_HAY_CONFIGURACION_PENDIENTE"), usr |-> usr,
             verif |-> FALSE, clave |-> Nada]
        ELSE IF ~formato_6_digitos(cod) THEN
            [res |-> Res(400, "Codigo debe ser de 6 digitos numericos"), usr |-> usr,
             verif |-> FALSE, clave |-> Nada]
        ELSE IF validar_otp_con_debug(usr, cod, t, falla) THEN
            [res |-> Res(200, "OK"), usr |-> activar_otp(usr, t),
             verif |-> TRUE, clave |-> Nada]
        ELSE
            [res |-> Res(400, "Codigo de validacion incorrecto"), usr |-> usr,
             verif |-> TRUE, clave |-> Nada]

\* POST /api/auth/otp/configurar-inicial
configurar_otp_inicial(u, cod, k, qr_ok, falla) ==
    /\ u \in tokens
    /\ cod = Nada => k \in ClavesNuevas(usuarios[u])
    /\ LET usr == usuarios[u]
       IN  IF falla = "bd_usuario" THEN
               /\ resp' = R("configurar_otp_inicial", u, 0, cod, falla,
                            Res(500, "Error interno del servidor"), FALSE)
               /\ UNCHANGED usuarios
           ELSE IF ~usr.activo THEN
               /\ resp' = R("configurar_otp_inicial", u, 0, cod, falla,
                            Res(401, "Usuario invalido"), FALSE)
               /\ UNCHANGED usuarios
           ELSE
               LET c == configurar_otp_inicial_cuerpo(usr, cod, k, qr_ok, ahora, falla)
               IN  /\ resp' = [R("configurar_otp_inicial", u, 0, cod, falla, c.res, c.verif)
                                 EXCEPT !.clave = c.clave]
                   /\ usuarios' = [usuarios EXCEPT ![u] = c.usr]
    /\ UNCHANGED <<documentos, tokens, ahora, rate_limit_cache, sesiones>>

\* body of validar_otp_route for an active user and a JSON body
validar_otp_route_cuerpo(usr, cod, t, falla) ==
    LET v == validar_otp(usr, cod, t, falla)
    IN  IF usr.clave_otp_base32 = Nada THEN
            [res |-> Res(400, "NO_HAY_CONFIGURACION_PENDIENTE"), usr |-> usr, verif |-> FALSE]
        ELSE IF cod = Nada THEN
            [res |-> Res(400, "CODIGO_OTP_REQUERIDO"), usr |-> usr, verif |-> FALSE]
        ELSE IF ~validar_codigo_otp(cod) THEN
            [res |-> Res(400, "OTP_FORMATO_INVALIDO"), usr |-> usr, verif |-> FALSE]
        ELSE
            [res |-> Res(200, IF v.ok THEN "OTP valido" ELSE "OTP invalido"),
             usr |-> v.usr, verif |-> v.verif]

\* POST /api/auth/otp/validar
validar_otp_route(u, cod, ip, falla) ==
    /\ u \in tokens
    /\ LET usr == usuarios[u]
           lim == limitar_frecuencia(rate_limit_cache, "validar_otp_route", ip,
                                     MaxIntentosValidarOTP, VentanaValidarOTP, ahora)
       IN  /\ rate_limit_cache' = lim.cache
           /\ IF ~lim.pasa THEN
                  /\ resp' = R("validar_otp_route", u, 0, cod, falla,
                               Res(429, "LIMITE_FRECUENCIA_EXCEDIDO"), FALSE)
                  /\ UNCHANGED usuarios
              ELSE IF falla = "bd_usuario" THEN
                  /\ resp' = R("validar_otp_route", u, 0, cod, falla,
                               Res(500, "ERROR_INTERNO"), FALSE)
                  /\ UNCHANGED usuarios
              ELSE IF ~usr.activo THEN
                  /\ resp' = R("validar_otp_route", u, 0, cod, falla,
                               Res(401, "Usuario invalido"), FALSE)
                  /\ UNCHANGED usuarios
              ELSE
                  LET c == validar_otp_route_cuerpo(usr, cod, ahora, falla)
                  IN  /\ resp' = R("validar_otp_route", u, 0, cod, falla, c.res, c.verif)
                      /\ usuarios' = [usuarios EXCEPT ![u] = c.usr]
    /\ UNCHANGED <<documentos, tokens, ahora, sesiones>>

\* POST /api/auth/otp/resetear
resetear_configuracion_otp(u, falla) ==
    /\ u \in tokens
    /\ LET usr == usuarios[u]
       IN  IF falla = "bd_usuario" THEN
               /\ resp' = R("resetear_configuracion_otp", u, 0, Nada, falla,
                            Res(500, "ERROR_INTERNO"), FALSE)
               /\ UNCHANGED usuarios
           ELSE IF ~usr.activo THEN
               /\ resp' = R("resetear_configuracion_otp", u, 0, Nada, falla,
                            Res(401, "USUARIO_INVALIDO"), FALSE)
               /\ UNCHANGED usuarios
           ELSE
               /\ resp' = R("resetear_configuracion_otp", u, 0, Nada, falla,
                            Res(200, "OK"), FALSE)
               /\ usuarios' = [usuarios EXCEPT ![u] = resetear_otp(usr)]
    /\ UNCHANGED <<documentos, tokens, ahora, rate_limit_cache, sesiones>>

\* GET /api/auth/otp/estado: answers for every user the token names
verificar_estado_otp(u, falla) ==
    /\ u \in tokens
    /\ resp' = R("verificar_estado_otp", u, 0, Nada, falla,
                 IF falla = "bd_usuario"
                 THEN Res(500, "Error interno del servidor") ELSE Res(200, "OK"),
                 FALSE)
    /\ UNCHANGED <<usuarios, documentos, tokens, ahora, rate_limit_cache, sesiones>>

(***************************************************************************)
(* routes/auth.py: login                                                   *)
(***************************************************************************)
\* login without the esta_bloqueado() test before the password check
login_cuerpo_sin_bloqueo(usr, existe, password_ok) ==
    IF ~existe THEN
        [res |-> Res(401, "CREDENCIALES_INVALIDAS"), usr |-> usr, verif |-> FALSE,
         token |-> FALSE]
    ELSE IF ~usr.activo THEN
        [res |-> Res(401, "CUENTA_DESACTIVADA"), usr |-> usr, verif |-> FALSE,
         token |-> FALSE]
    ELSE IF ~password_ok THEN
        [res |-> Res(401, "CREDENCIALES_INVALIDAS"),
         usr |-> registrar_intento_fallido(usr), verif |-> TRUE, token |-> FALSE]
    ELSE
        [res |-> Res(200, "OK"), usr |-> usr, verif |-> TRUE, token |-> TRUE]

\* body of login for the row the email names (u = 0: no such row); the
\* response, the row as committed, whether the password was checked and
\* whether tokens were issued.  generar_tokens_jwt sets
\* intentos_login_fallidos = 0 in the session and no commit follows.
login_cuerpo(usr, existe, password_ok) ==
    IF ~existe THEN
        [res |-> Res(401, "CREDENCIALES_INVALIDAS"), usr |-> usr, verif |-> FALSE,
         token |-> FALSE]
    ELSE IF ~usr.activo THEN
        [res |-> Res(401, "CUENTA_DESACTIVADA"), usr |-> usr, verif |-> FALSE,
         token |-> FALSE]
    ELSE IF esta_bloqueado(usr) THEN
        [res |-> Res(423, "CUENTA_BLOQUEADA"), usr |-> usr, verif |-> FALSE,
         token |-> FALSE]
    ELSE IF ~password_ok THEN
        [res |-> Res(401, "CREDENCIALES_INVALIDAS"),
         usr |-> registrar_intento_fallido(usr), verif |-> TRUE, token |-> FALSE]
    ELSE
        [res |-> Res(200, "OK"), usr |-> usr, verif |-> TRUE, token |-> TRUE]

\* POST /api/auth/login
login(u, password_ok, ip) ==
    LET lim == limitar_frecuencia(rate_limit_cache, "login", ip,
                                  MaxIntentosLogin, VentanaLogin, ahora)
    IN  /\ rate_limit_cache' = lim.cache
        /\ IF ~lim.pasa THEN
               /\ resp' = R("login", u, 0, Nada, "ninguna",
                            Res(429, "LIMITE_FRECUENCIA_EXCEDIDO"), FALSE)
               /\ UNCHANGED <<usuarios, tokens>>
           ELSE
               LET existe == u \in Usuarios
                   c == login_cuerpo(IF existe THEN usuarios[u] ELSE UsuarioNuevo(0),
                                     existe, password_ok)
               IN  /\ resp' = R("login", u, 0, Nada, "ninguna", c.res, c.verif)
                   /\ usuarios' = IF existe THEN [usuarios EXCEPT ![u] = c.usr]
                                  ELSE usuarios
                   /\ tokens' = IF c.token THEN tokens \cup {u} ELSE tokens
        /\ UNCHANGED <<documentos, ahora, sesiones>>

\* refrescar_token whose new counter value would be committed
refrescar_token_cuerpo_con_commit(usr) ==
    IF ~usr.activo THEN [res |-> Res(401, "USUARIO_INVALIDO"), usr |-> usr]
    ELSE [res |-> Res(200, "OK"),
          usr |-> [usr EXCEPT !.intentos_login_fallidos = 0]]

\* body of refrescar_token: the response and the row as committed.
\* generar_tokens_jwt sets intentos_login_fallidos = 0 in the session and
\* no commit follows; the route does not ask esta_bloqueado().
refrescar_token_cuerpo(usr) ==
    IF ~usr.activo THEN [res |-> Res(401, "USUARIO_INVALIDO"), usr |-> usr]
    ELSE [res |-> Res(200, "OK"), usr |-> usr]

\* POST /api/auth/refresh with the refresh token a login issued
refrescar_token(u, falla) ==
    /\ u \in tokens
    /\ IF falla = "bd_usuario" THEN
           /\ resp' = R("refrescar_token", u, 0, Nada, falla,
                        Res(500, "ERROR_INTERNO"), FALSE)
           /\ UNCHANGED usuarios
       ELSE
           LET c == refrescar_token_cuerpo(usuarios[u])
           IN  /\ resp' = R("refrescar_token", u, 0, Nada, falla, c.res, FALSE)
               /\ usuarios' = [usuarios EXCEPT ![u] = c.usr]
    /\ UNCHANGED <<documentos, tokens, ahora, rate_limit_cache, sesiones>>

(***************************************************************************)
(* models/usuario.py: a method no route calls                              *)
(***************************************************************************)
\* a caller that holds the row of a logged-in user runs
\* usuario.activar_otp_con_validacion(codigo); codigo of the answer is what
\* the method returned
llamar_activar_otp_con_validacion(u, cod) ==
    /\ u \in tokens
    /\ LET c == activar_otp_con_validacion(usuarios[u], cod, ahora, "ninguna")
       IN  /\ resp' = R("activar_otp_con_validacion", u, 0, cod, "ninguna",
                        Res(0, IF c.ok THEN "True" ELSE "False"), FALSE)
           /\ usuarios' = [usuarios EXCEPT ![u] = c.usr]
    /\ UNCHANGED <<documentos, tokens, ahora, rate_limit_cache, sesiones>>

(***************************************************************************)
(* The two decisions as functions of the name of the action.  The name is  *)
(* a parameter of the decorator and of the matrix, so it may be any        *)
(* string; the answer records it, as the 403 of the decorator does.        *)
(***************************************************************************)
\* the names the routes use, the name accion_map gives to a POST, a name
\* found nowhere in the code, and the empty name
AccionesPedidas == Acciones \cup {"crear", "compartir", ""}

NivelesPedidos == Niveles \cup {"otro"}

Decision(op, accion, u, d, nivel_seguridad, r, requiere) ==
    [ op |-> op, u |-> u, d |-> d, cod |-> Nada, falla |-> "ninguna",
      doc |-> FilaDoc(documentos, d),
      estatus |-> r.estatus, codigo |-> r.codigo, verif |-> FALSE,
      clave |-> Nada, repetido |-> FALSE,
      accion |-> accion, nivel_seguridad |-> nivel_seguridad,
      requiere |-> requiere ]

\* funcion_decorada of validar_acceso_documento(accion): it answers, or it
\* passes the request on to the handler it wraps
funcion_decorada(accion, u, d) ==
    /\ u \in tokens
    /\ LET acc == validar_acceso_documento(accion, usuarios[u], documentos, d, "ninguna")
       IN  resp' = Decision("funcion_decorada", accion, u, d, "", acc, FALSE)
    /\ UNCHANGED <<usuarios, documentos, tokens, ahora, rate_limit_cache, sesiones>>

\* Usuario.requiere_otp_para(accion, nivel_seguridad)
requiere_otp_para(u, accion, nivel_seguridad) ==
    /\ resp' = Decision("requiere_otp_para", accion, u, 0, nivel_seguridad, Res(0, ""),
                        requiere_otp_para_accion(accion, nivel_seguridad, usuarios[u].rol))
    /\ UNCHANGED <<usuarios, documentos, tokens, ahora, rate_limit_cache, sesiones>>

(***************************************************************************)
(* requiere_rol with its roles_permitidos.  The arguments are Python values: a *)
(* string, or a list of strings as routes/monitoreo.py passes.              *)
(***************************************************************************)
Cadena(v) == [tipo |-> "str", valor |-> v]
Lista(v) == [tipo |-> "list", valor |-> v]

\* rol in roles_permitidos: a string equals no list
en_roles_permitidos(rol, roles_permitidos) ==
    \E i \in 1..Len(roles_permitidos) :
        /\ roles_permitidos[i].tipo = "str"
        /\ roles_permitidos[i].valor = rol

\* ", ".join(roles_permitidos) raises TypeError unless every item is a string
join_falla(roles_permitidos) ==
    \E i \in 1..Len(roles_permitidos) : roles_permitidos[i].tipo # "str"

\* funcion_decorada of requiere_rol, itself wrapped by
\* requiere_autenticacion, whose except turns an exception into 401
requiere_rol(roles_permitidos, usr) ==
    LET aut == requiere_autenticacion(usr, "ninguna")
    IN  IF aut # Pasa THEN aut
        ELSE IF ~en_roles_permitidos(usr.rol, roles_permitidos) THEN
            IF join_falla(roles_permitidos)
            THEN Res(401, "ERROR_AUTENTICACION")
            ELSE Res(403, "ROL_INSUFICIENTE")
        ELSE Pasa

\* a handler of routes/monitoreo.py under requiere_rol: it is declared
\* without parameters and called with usuario_actual=..., a TypeError that
\* the except of requiere_autenticacion turns into 401
ruta_de_monitoreo(roles_permitidos, usr) ==
    LET rol == requiere_rol(roles_permitidos, usr)
    IN  IF rol # Pasa THEN rol ELSE Res(401, "ERROR_AUTENTICACION")

\* requiere_admin around a handler
requiere_admin(u) ==
    /\ u \in tokens
    /\ resp' = R("requiere_admin", u, 0, Nada, "ninguna",
                 requiere_rol(<<Cadena("admin")>>, usuarios[u]), FALSE)
    /\ UNCHANGED <<usuarios, documentos, tokens, ahora, rate_limit_cache, sesiones>>

\* requiere_supervisor_o_admin around a handler
requiere_supervisor_o_admin(u) ==
    /\ u \in tokens
    /\ resp' = R("requiere_supervisor_o_admin", u, 0, Nada, "ninguna",
                 requiere_rol(<<Cadena("supervisor"), Cadena("admin")>>, usuarios[u]),
                 FALSE)
    /\ UNCHANGED <<usuarios, documentos, tokens, ahora, rate_limit_cache, sesiones>>

\* GET /api/monitoreo/performance
obtener_metricas_performance(u) ==
    /\ u \in tokens
    /\ resp' = R("obtener_metricas_performance", u, 0, Nada, "ninguna",
                 ruta_de_monitoreo(<<Lista(<<"supervisor", "admin">>)>>, usuarios[u]),
                 FALSE)
    /\ UNCHANGED <<usuarios, documentos, tokens, ahora, rate_limit_cache, sesiones>>

\* GET /api/monitoreo/cache/estadisticas
obtener_estadisticas_cache(u) ==
    /\ u \in tokens
    /\ resp' = R("obtener_estadisticas_cache", u, 0, Nada, "ninguna",
                 ruta_de_monitoreo(<<Lista(<<"admin">>)>>, usuarios[u]), FALSE)
    /\ UNCHANGED <<usuarios, documentos, tokens, ahora, rate_limit_cache, sesiones>>

(***************************************************************************)
(* Requests of the same user in flight at once.  A handler loads the row   *)
(* with Usuario.query.get into its own session, works on that copy and     *)
(* ends with db.session.commit(); the routes take no lock on the row and   *)
(* the model has no version column, so other requests may commit between   *)
(* the load and the commit.                                                *)
(***************************************************************************)
OpsOTP == {"configurar_otp_inicial", "validar_otp_route", "resetear_configuracion_otp"}

\* db.session.commit() of a session that loaded the row as cargada and left
\* it as modificada: the UPDATE carries the columns the handler changed and
\* the other columns of the stored row stay
commit(almacenada, cargada, modificada) ==
    [c \in DOMAIN almacenada |->
        IF modificada[c] # cargada[c] THEN modificada[c] ELSE almacenada[c]]

\* what the handler of session s does with the copy it loaded: the response,
\* the copy as it is at the commit, whether the TOTP check ran and the
\* secret handed out
cuerpo_de_sesion(s, t) ==
    IF ~s.usuario.activo THEN
        [res |-> Res(401, IF s.op = "resetear_configuracion_otp"
                          THEN "USUARIO_INVALIDO" ELSE "Usuario invalido"),
         usr |-> s.usuario, verif |-> FALSE, clave |-> Nada]
    ELSE IF s.op = "configurar_otp_inicial" THEN
        configurar_otp_inicial_cuerpo(s.usuario, s.cod, s.k, TRUE, t, "ninguna")
    ELSE IF s.op = "validar_otp_route" THEN
        LET c == validar_otp_route_cuerpo(s.usuario, s.cod, t, "ninguna")
        IN  [res |-> c.res, usr |-> c.usr, verif |-> c.verif, clave |-> Nada]
    ELSE
        [res |-> Res(200, "OK"), usr |-> resetear_otp(s.usuario),
         verif |-> FALSE, clave |-> Nada]

\* secrets random_base32() has handed to a request still in flight
ClavesEnCurso ==
    { sesiones[h][1].k : h \in { x \in Hilos : sesiones[x] # Nada } }

\* verification requests the client has sent in the current window
VerificacionesEnviadas ==
    IF rate_limit_cache[<<"validar_otp_route", 1>>] = Nada THEN 0
    ELSE rate_limit_cache[<<"validar_otp_route", 1>>][1].intentos

\* a worker takes a request of user u and loads the row; validar_otp_route
\* passes its rate limit first, and the client sends up to
\* MaxVerificaciones of them
cargar_usuario(h, op, u, cod, k, ip) ==
    /\ sesiones[h] = Nada
    /\ op = "validar_otp_route" => VerificacionesEnviadas < MaxVerificaciones
    /\ u \in tokens
    /\ (op = "configurar_otp_inicial" /\ cod = Nada)
          => k \in ClavesNuevas(usuarios[u]) \ ClavesEnCurso
    /\ LET lim == IF op = "validar_otp_route"
                  THEN limitar_frecuencia(rate_limit_cache, op, ip,
                                          MaxIntentosValidarOTP, VentanaValidarOTP, ahora)
                  ELSE [pasa |-> TRUE, cache |-> rate_limit_cache]
       IN  /\ rate_limit_cache' = lim.cache
           /\ IF ~lim.pasa THEN
                  /\ resp' = R(op, u, 0, cod, "ninguna",
                               Res(429, "LIMITE_FRECUENCIA_EXCEDIDO"), FALSE)
                  /\ UNCHANGED sesiones
              ELSE
                  /\ sesiones' = [sesiones EXCEPT ![h] =
                                    <<[op |-> op, u |-> u, cod |-> cod, k |-> k,
                                       usuario |-> usuarios[u]]>>]
                  /\ UNCHANGED resp
    /\ UNCHANGED <<usuarios, documentos, tokens, ahora>>

\* the handler of worker h runs on the copy it loaded, commits and answers
terminar_peticion(h) ==
    /\ sesiones[h] # Nada
    /\ LET s == sesiones[h][1]
           c == cuerpo_de_sesion(s, ahora)
       IN  /\ resp' = [R(s.op, s.u, 0, s.cod, "ninguna", c.res, c.verif)
                         EXCEPT !.clave = c.clave]
           /\ usuarios' = [usuarios EXCEPT ![s.u] = commit(@, s.usuario, c.usr)]
    /\ sesiones' = [sesiones EXCEPT ![h] = Nada]
    /\ UNCHANGED <<documentos, tokens, ahora, rate_limit_cache>>

\* login of worker h up to Usuario.query.filter_by(email=email).first():
\* limitar_frecuencia counts the request, then the handler loads the row
cargar_login(h, u, password_ok, ip) ==
    /\ sesiones[h] = Nada
    /\ LET lim == limitar_frecuencia(rate_limit_cache, "login", ip,
                                     MaxIntentosLogin, VentanaLogin, ahora)
       IN  /\ rate_limit_cache' = lim.cache
           /\ IF ~lim.pasa THEN
                  /\ resp' = R("login", u, 0, Nada, "ninguna",
                               Res(429, "LIMITE_FRECUENCIA_EXCEDIDO"), FALSE)
                  /\ UNCHANGED sesiones
              ELSE
                  /\ sesiones' = [sesiones EXCEPT ![h] =
                                    <<[op |-> "login", u |-> u,
                                       password_ok |-> password_ok,
                                       usuario |-> usuarios[u]]>>]
                  /\ UNCHANGED resp
    /\ UNCHANGED <<usuarios, documentos, tokens, ahora>>

\* the rest of login of worker h, on the copy it loaded:
\* registrar_intento_fallido adds one to the count of the copy and commits
terminar_login(h) ==
    /\ sesiones[h] # Nada
    /\ sesiones[h][1].op = "login"
    /\ LET s == sesiones[h][1]
           c == login_cuerpo(s.usuario, TRUE, s.password_ok)
       IN  /\ resp' = R("login", s.u, 0, Nada, "ninguna", c.res, c.verif)
           /\ usuarios' = [usuarios EXCEPT ![s.u] = commit(@, s.usuario, c.usr)]
           /\ tokens' = IF c.token THEN tokens \cup {s.u} ELSE tokens
    /\ sesiones' = [sesiones EXCEPT ![h] = Nada]
    /\ UNCHANGED <<documentos, ahora, rate_limit_cache>>

(***************************************************************************)
(* Environment                                                             *)
(***************************************************************************)
\* the column usuarios.activo is set to False (no route does it)
desactivar_cuenta(u) ==
    /\ usuarios[u].activo
    /\ usuarios' = [usuarios EXCEPT ![u].activo = FALSE]
    /\ resp' = SinRespuesta
    /\ UNCHANGED <<documentos, tokens, ahora, rate_limit_cache, sesiones>>

\* the clock advances by one TOTP step
avanzar_tiempo ==
    /\ timecode(ahora) < 2 + MaxPasos
    /\ ahora' = ahora + PasoTOTP
    /\ resp' = SinRespuesta
    /\ UNCHANGED <<usuarios, documentos, tokens, rate_limit_cache, sesiones>>

\* datetime.utcnow() between two requests: the clock advances by one
\* window of the login limiter, which takes it to the instant a window
\* that started at the last request expires
esperar ==
    /\ ahora + VentanaLogin <= 2 * PasoTOTP + MaxVentanas * VentanaLogin
    /\ ahora' = ahora + VentanaLogin
    /\ resp' = SinRespuesta
    /\ UNCHANGED <<usuarios, documentos, tokens, rate_limit_cache, sesiones>>

(***************************************************************************)
(* Initial states                                                          *)
(***************************************************************************)
FilasIniciales ==
    [ propietario_id : Usuarios, nivel_seguridad : Niveles,
      estado : {"activo", "archivado"} ]

\* the table documentos holds up to MaxDocs rows: documents as
\* crear_documento stores them for any owner, re-classified or archived
DocumentosIniciales == UNION { [1..n -> FilasIniciales] : n \in 0..MaxDocs }

ClavesCache == {"login", "validar_otp_route"} \X IPs

\* after crear_usuarios_prueba
Init ==
    /\ usuarios = [u \in Usuarios |-> UsuarioNuevo(u)]
    /\ documentos \in DocumentosIniciales
    /\ tokens = {}
    /\ ahora = 2 * PasoTOTP
    /\ rate_limit_cache = [c \in ClavesCache |-> Nada]
    /\ resp = SinRespuesta
    /\ sesiones = [h \in Hilos |-> Nada]

\* one of the accounts has logged in and holds an access token; the
\* window of its login has expired since
InitSesion ==
    /\ usuarios = [u \in Usuarios |-> UsuarioNuevo(u)]
    /\ documentos \in DocumentosIniciales
    /\ tokens \in { {u} : u \in Usuarios }
    /\ ahora = 2 * PasoTOTP
    /\ rate_limit_cache = [c \in ClavesCache |-> Nada]
    /\ resp = SinRespuesta
    /\ sesiones = [h \in Hilos |-> Nada]

(***************************************************************************)
(* Requests.  F is the set of collaborator errors that may occur, C the    *)
(* set of codes the client submits, I the addresses requests come from    *)
(* and U the accounts a login names.                                      *)
(***************************************************************************)
IdsPedidos == 0..(MaxDocs + 1)

\* no code, or the current code of a secret
CodigosCabecera == {Nada} \cup { at(k, 2) : k \in Claves }

PeticionVer(F, C) ==
    \E u \in Usuarios, d \in IdsPedidos, cod \in C, falla \in F :
        obtener_documento(u, d, cod, falla)

PeticionEliminar(F, C) ==
    \E u \in Usuarios, d \in IdsPedidos, cod \in C, falla \in F :
        eliminar_documento(u, d, cod, falla)

PeticionDescargar(F, C) ==
    \E u \in Usuarios, d \in IdsPedidos, cod \in C, falla \in F,
       archivo_existe \in BOOLEAN :
        descargar_documento(u, d, cod, falla, archivo_existe)

PeticionEditar(F) ==
    \E u \in Usuarios, d \in IdsPedidos, falla \in F,
       nuevo_nivel \in Niveles \cup {"", "otro"}, archivo_existe \in BOOLEAN :
        actualizar_documento(u, d, nuevo_nivel, falla, archivo_existe)

PeticionGenerar(F) ==
    \E u \in Usuarios, k \in Claves, qr_ok \in BOOLEAN, falla \in F \ {"bd_documento"} :
        generar_otp_route(u, k, qr_ok, falla)

\* PASO 1: no codigo_validacion in the body
PeticionConfigurar(F) ==
    \E u \in Usuarios, k \in Claves, qr_ok \in BOOLEAN, falla \in F \ {"bd_documento"} :
        configurar_otp_inicial(u, Nada, k, qr_ok, falla)

\* PASO 2: the body carries codigo_validacion
PeticionActivar(F, C) ==
    \E u \in Usuarios, cod \in C \ {Nada}, falla \in F \ {"bd_documento"} :
        configurar_otp_inicial(u, cod, 1, TRUE, falla)

PeticionResetear(F) ==
    \E u \in Usuarios, falla \in F \ {"bd_documento"} :
        resetear_configuracion_otp(u, falla)

PeticionEstado(F) ==
    \E u \in Usuarios, falla \in F \ {"bd_documento"} :
        verificar_estado_otp(u, falla)

PeticionValidarOTP(F, C, I) ==
    \E u \in Usuarios, cod \in C, ip \in I,
       falla \in F \ {"bd_documento"} :
        validar_otp_route(u, cod, ip, falla)

PeticionRefrescar(F) ==
    \E u \in Usuarios, falla \in F \ {"bd_documento", "totp"} :
        refrescar_token(u, falla)

\* 0 is an email of no account
PeticionLogin(U) ==
    \E u \in U, password_ok \in BOOLEAN, ip \in IPs :
        login(u, password_ok, ip)

\* an account that holds a token is deactivated
Desactivar == \E u \in tokens : desactivar_cuenta(u)

Next ==
    \/ PeticionVer(Fallas, CodigosEnviados)
    \/ PeticionEliminar(Fallas, CodigosCabecera)
    \/ PeticionDescargar(Fallas, CodigosCabecera)
    \/ PeticionEditar(Fallas)
    \/ PeticionGenerar(Fallas)
    \/ PeticionConfigurar(Fallas)
    \/ PeticionActivar(Fallas, CodigosEnviados)
    \/ PeticionResetear(Fallas)
    \/ PeticionEstado(Fallas)
    \/ PeticionValidarOTP(Fallas, CodigosEnviados, IPs)
    \/ PeticionLogin(Usuarios \cup {0})
    \/ PeticionRefrescar(Fallas)
    \/ Desactivar
    \/ avanzar_tiempo

Spec == Init /\ [][Next]_vars

SinFallas == {"ninguna"}

\* the document requests of one logged-in user, who configures, activates
\* and resets OTP along the way
NextDoc ==
    \/ PeticionVer(SinFallas, CodigosEnviados)
    \/ PeticionEliminar(SinFallas, CodigosCabecera)
    \/ PeticionDescargar(SinFallas, CodigosCabecera)
    \/ PeticionEditar(SinFallas)
    \/ PeticionConfigurar(SinFallas)
    \/ PeticionActivar(SinFallas, CodigosEnviados)
    \/ PeticionResetear(SinFallas)

SpecDoc == InitSesion /\ [][NextDoc]_vars

\* the same requests when the table holds one active document
InitUnDocumento ==
    /\ InitSesion
    /\ Len(documentos) = 1
    /\ documentos[1].estado = "activo"

SpecPermisos == InitUnDocumento /\ [][NextDoc]_vars

\* the requests on one active document while collaborators fail; the client
\* submits the current code of a secret or none

NextFallas ==
    \/ PeticionVer(Fallas, CodigosCabecera)
    \/ PeticionEliminar(Fallas, CodigosCabecera)
    \/ PeticionDescargar(Fallas, CodigosCabecera)
    \/ PeticionConfigurar(SinFallas)
    \/ PeticionActivar(Fallas, CodigosCabecera)

SpecFallas == InitUnDocumento /\ [][NextFallas]_vars

\* the OTP life cycle of one logged-in user whose requests come from one
\* address, while the clock advances
InitOTP ==
    /\ InitSesion
    /\ documentos = <<>>

NextOTP ==
    \/ PeticionGenerar(SinFallas)
    \/ PeticionConfigurar(SinFallas)
    \/ PeticionActivar(SinFallas, CodigosEnviados)
    \/ PeticionValidarOTP(SinFallas, CodigosEnviados, {1})
    \/ PeticionResetear(SinFallas)
    \/ PeticionEstado(SinFallas)
    \/ avanzar_tiempo

SpecOTP == InitOTP /\ [][NextOTP]_vars

\* the account of role usuario from its first login on: logins from every
\* address, token refreshes, the requests on a document of its own, and its
\* deactivation
CuentaObservada == CHOOSE u \in Usuarios : RolInicial(u) = "usuario"

InitCuenta ==
    /\ Init
    /\ Len(documentos) = 1
    /\ documentos[1].propietario_id = CuentaObservada
    /\ documentos[1].estado = "activo"

NextCuenta ==
    \/ PeticionLogin({CuentaObservada})
    \/ PeticionRefrescar(SinFallas)
    \/ PeticionVer(SinFallas, {Nada})
    \/ PeticionEliminar(SinFallas, {Nada})
    \/ PeticionDescargar(SinFallas, {Nada})
    \/ PeticionEstado(SinFallas)
    \/ Desactivar

SpecCuenta == InitCuenta /\ [][NextCuenta]_vars

\* the OTP life cycle of one logged-in user when the model method is used
\* to activate
PeticionMetodoActivar(C) ==
    \E u \in Usuarios, cod \in C \ {Nada} :
        llamar_activar_otp_con_validacion(u, cod)

NextMetodo ==
    \/ PeticionConfigurar(SinFallas)
    \/ PeticionActivar(SinFallas, CodigosTOTP)
    \/ PeticionMetodoActivar(CodigosEnviados)
    \/ PeticionResetear(SinFallas)
    \/ avanzar_tiempo

SpecMetodo == InitOTP /\ [][NextMetodo]_vars

\* the OTP requests of the observed account, up to NumHilos of them in
\* flight at once
InitConcurrente ==
    /\ InitOTP
    /\ tokens = {CuentaObservada}

\* the requests of the routes O: PASO 1 carries no code and gets a fresh
\* secret; the other requests carry the current code of a secret
PeticionCargar(O) ==
    \E h \in Hilos, u \in Usuarios :
        \/ \E op \in O \cap {"configurar_otp_inicial"}, k \in Claves :
              cargar_usuario(h, op, u, Nada, k, 1)
        \/ \E op \in O \cap {"configurar_otp_inicial"},
              cod \in CodigosCabecera \ {Nada} :
              cargar_usuario(h, op, u, cod, 1, 1)
        \/ \E op \in O \cap {"validar_otp_route"}, cod \in CodigosCabecera \ {Nada} :
              cargar_usuario(h, op, u, cod, 1, 1)
        \/ \E op \in O \cap {"resetear_configuracion_otp"} :
              cargar_usuario(h, op, u, Nada, 1, 1)

PeticionTerminar == \E h \in Hilos : terminar_peticion(h)

NextConcurrente == PeticionCargar(OpsOTP) \/ PeticionTerminar

SpecConcurrente == InitConcurrente /\ [][NextConcurrente]_vars

\* provisioning and confirmation requests of the observed account in flight
\* at once
NextCarrera == PeticionCargar({"configurar_otp_inicial"}) \/ PeticionTerminar

SpecCarrera == InitConcurrente /\ [][NextCarrera]_vars

\* the two state machines of one account side by side: the account owns a
\* secret document; logins for it and for an unknown email, its OTP
\* requests, its views of the document, and its deactivation
InitMarco ==
    /\ InitCuenta
    /\ documentos[1].nivel_seguridad = "secreto"

\* verification requests while fewer than MaxVerificaciones were counted
PeticionValidarAcotada(C) ==
    \E u \in Usuarios, cod \in C :
        /\ VerificacionesEnviadas < MaxVerificaciones
        /\ validar_otp_route(u, cod, 1, "ninguna")

\* logins that come from the addresses I
PeticionLoginDesde(U, I) ==
    \E u \in U, password_ok \in BOOLEAN, ip \in I :
        login(u, password_ok, ip)

NextMarco ==
    \/ PeticionLoginDesde({CuentaObservada, 0}, {1})
    \/ PeticionRefrescar(SinFallas)
    \/ PeticionConfigurar(SinFallas)
    \/ PeticionActivar(SinFallas, CodigosCabecera)
    \/ PeticionValidarAcotada(CodigosCabecera)
    \/ PeticionResetear(SinFallas)
    \/ PeticionVer(SinFallas, CodigosCabecera)
    \/ Desactivar

SpecMarco == InitMarco /\ [][NextMarco]_vars

\* the role decorators and the monitoring routes for the logged-in user,
\* who may be deactivated
NextRoles ==
    \/ \E u \in Usuarios : requiere_admin(u)
    \/ \E u \in Usuarios : requiere_supervisor_o_admin(u)
    \/ \E u \in Usuarios : obtener_metricas_performance(u)
    \/ \E u \in Usuarios : obtener_estadisticas_cache(u)
    \/ Desactivar

SpecRoles == InitSesion /\ [][NextRoles]_vars

\* logins of one account from every address, with the right and with a
\* wrong password, and the clock across the windows
NextFrecuencia ==
    \/ PeticionLoginDesde({CuentaObservada}, IPs)
    \/ esperar

SpecFrecuencia == InitMarco /\ [][NextFrecuencia]_vars

\* login requests for one account in flight at once, from every address
PeticionCargarLogin ==
    \E h \in Hilos, password_ok \in BOOLEAN, ip \in IPs :
        cargar_login(h, CuentaObservada, password_ok, ip)

PeticionTerminarLogin == \E h \in Hilos : terminar_login(h)

NextLoginConcurrente == PeticionCargarLogin \/ PeticionTerminarLogin

SpecLoginConcurrente == InitCuenta /\ [][NextLoginConcurrente]_vars

\* the three accounts have logged in and hold access tokens
InitTodos ==
    /\ usuarios = [u \in Usuarios |-> UsuarioNuevo(u)]
    /\ documentos \in DocumentosIniciales
    /\ tokens = Usuarios
    /\ ahora = 2 * PasoTOTP
    /\ rate_limit_cache = [c \in ClavesCache |-> Nada]
    /\ resp = SinRespuesta
    /\ sesiones = [h \in Hilos |-> Nada]

\* the life of the documents under the requests of the three users
NextVida ==
    \/ PeticionVer(SinFallas, CodigosCabecera)
    \/ PeticionEliminar(SinFallas, CodigosCabecera)
    \/ PeticionDescargar(SinFallas, CodigosCabecera)
    \/ PeticionEditar(SinFallas)

SpecVida == InitTodos /\ [][NextVida]_vars

\* the same requests when every document of the table was stored as secret;
\* no user configures OTP, so no code is ever verified
InitSecreto ==
    /\ InitTodos
    /\ \A d \in 1..Len(documentos) : documentos[d].nivel_seguridad = "secreto"

SpecSecreto == InitSecreto /\ [][NextVida]_vars

\* the owner of a secret document has logged in; they configure and activate
\* OTP, have codes verified and view the document while the clock advances;
\* the client submits no code or the code a secret had when it logged in
InitRepeticion ==
    /\ InitUnDocumento
    /\ documentos[1].nivel_seguridad = "secreto"
    /\ documentos[1].propietario_id \in tokens

NextRepeticion ==
    \/ PeticionConfigurar(SinFallas)
    \/ PeticionActivar(SinFallas, CodigosCabecera)
    \/ PeticionValidarOTP(SinFallas, CodigosCabecera, {1})
    \/ PeticionVer(SinFallas, CodigosCabecera)
    \/ avanzar_tiempo

SpecRepeticion == InitRepeticion /\ [][NextRepeticion]_vars

\* the decorator and the matrix applied to every name of an action, for
\* the logged-in user and the documents of the table
PeticionAcceso ==
    \E accion \in AccionesPedidas, u \in Usuarios, d \in IdsPedidos :
        funcion_decorada(accion, u, d)

LlamadaRequiereOTP ==
    \E u \in Usuarios, accion \in AccionesPedidas, nivel_seguridad \in NivelesPedidos :
        requiere_otp_para(u, accion, nivel_seguridad)

NextDecisiones == PeticionAcceso \/ LlamadaRequiereOTP

SpecDecisiones == InitSesion /\ [][NextDecisiones]_vars

(***************************************************************************)
(* Properties.  They read the last request and its response in resp; a     *)
(* property about the state a request found is an action property, where   *)
(* the unprimed variables are that state and resp' is the request.         *)
(***************************************************************************)
\* the protected operations of the OTP matrix, and the action of each route
OpsProtegidas == {"obtener_documento", "eliminar_documento", "descargar_documento"}
OpsConDocumento == OpsProtegidas \cup {"actualizar_documento"}

AccionDe(op) ==
    IF op = "obtener_documento" THEN "ver"
    ELSE IF op = "eliminar_documento" THEN "eliminar"
    ELSE IF op = "descargar_documento" THEN "descargar"
    ELSE "editar"

\* the request was for an existing, active document
DocumentoActivo(r) == r.doc # Nada /\ r.doc[1].estado = "activo"

\* the OTP matrix requires a second factor for the request
RequiereSegundoFactor(r) ==
    /\ r.op \in OpsProtegidas
    /\ DocumentoActivo(r)
    /\ requiere_otp_para_accion(AccionDe(r.op), r.doc[1].nivel_seguridad,
                                usuarios[r.u].rol)

\* the Permission Evaluator allows the request
Permitido(r) == puede_realizar_accion(AccionDe(r.op), usuarios[r.u], r.doc[1])

\* exactly six ASCII digits
SeisDigitosASCII(cod) ==
    Len(cod) = LargoCodigo /\ \A i \in 1..Len(cod) : cod[i] \in DigitosASCII

\* the second-factor state of a row
EstadoOTP(usr) ==
    IF usr.otp_habilitado THEN "Active"
    ELSE IF usr.clave_otp_base32 # Nada THEN "PendingActivation"
    ELSE "NotConfigured"

\* C1: a protected operation (view, delete, download) for which the OTP
\* matrix requires a second factor is carried out (answer 200) only when the
\* request submitted a code and the TOTP verification accepted it.
C1_ProcedeSoloConCodigoVerificado ==
    (RequiereSegundoFactor(resp) /\ resp.estatus = 200)
        => (resp.cod # Nada /\ resp.verif)

\* C2: when the Permission Evaluator denies the request on an existing,
\* active document, the answer is 403 PERMISOS_INSUFICIENTES whatever the OTP
\* matrix says and whatever code was sent; the TOTP verification does not
\* run and neither the user rows (fecha_ultimo_otp included) nor the
\* documents change.
C2_DenegacionCortocircuita ==
    [][ ( /\ resp'.op \in OpsConDocumento
          /\ DocumentoActivo(resp')
          /\ usuarios[resp'.u].activo
          /\ ~puede_realizar_accion(AccionDe(resp'.op), usuarios[resp'.u], resp'.doc[1]) )
        => ( /\ resp'.estatus = 403
             /\ resp'.codigo = "PERMISOS_INSUFICIENTES"
             /\ ~resp'.verif
             /\ UNCHANGED <<usuarios, documentos>> ) ]_vars

\* C2 happens: a user whose OTP is active sends a code that is valid now
\* with a request the matrix would ask a second factor for, and is denied
\* for lack of permission.
C2_Testigo ==
    /\ resp.op \in OpsProtegidas
    /\ resp.estatus = 403
    /\ resp.codigo = "PERMISOS_INSUFICIENTES"
    /\ RequiereSegundoFactor(resp)
    /\ usuarios[resp.u].otp_habilitado
    /\ resp.cod # Nada
    /\ verify(resp.cod, usuarios[resp.u].clave_otp_base32[1], ahora)

\* C3: when a permitted protected operation requires a second factor and
\* the user's OTP is not active, the answer is neither the operation (200)
\* nor the answer for a missing code nor the one for a wrong code.
C3_NoConfiguradoEsDistinto ==
    ( /\ RequiereSegundoFactor(resp)
      /\ Permitido(resp)
      /\ usuarios[resp.u].activo
      /\ EstadoOTP(usuarios[resp.u]) # "Active" )
        => ( /\ resp.estatus # 200
             /\ resp.codigo \notin {"OTP_REQUERIDO_VER", "OTP_INVALIDO"} )

\* C4: wherever a submitted code is checked, a code that is not six ASCII
\* digits is answered without running the TOTP verification and is not
\* reported as a wrong code.
C4_FormatoAntesDeVerificar ==
    ( /\ resp.op \in {"obtener_documento", "configurar_otp_inicial", "validar_otp_route"}
      /\ resp.cod # Nada
      /\ ~SeisDigitosASCII(resp.cod) )
        => ( /\ ~resp.verif
             /\ resp.codigo \notin {"OTP_INVALIDO", "OTP invalido",
                                    "Codigo de validacion incorrecto"} )

\* C5 as claimed: every protected operation of a locked account
\* (intentos_login_fallidos >= 5) that holds a token is answered
\* CUENTA_BLOQUEADA.
C5_BloqueadoRechazadoEnDocumentos ==
    (resp.op \in OpsProtegidas /\ esta_bloqueado(usuarios[resp.u]))
        => resp.codigo = "CUENTA_BLOQUEADA"

\* C5 amended: the lock is consulted at login only.  A login that passes the
\* rate limit for an active, locked account is answered 423 CUENTA_BLOQUEADA
\* without checking the password, issues no token and changes no row; a
\* protected operation is never answered CUENTA_BLOQUEADA, and a permitted
\* view for which the matrix asks no second factor is served to a locked
\* token holder.
C5_BloqueoSoloEnLogin ==
    [][ /\ ( /\ resp'.op = "login"
             /\ resp'.u \in Usuarios
             /\ resp'.estatus # 429
             /\ usuarios[resp'.u].activo
             /\ esta_bloqueado(usuarios[resp'.u]) )
           => ( /\ resp'.estatus = 423
                /\ resp'.codigo = "CUENTA_BLOQUEADA"
                /\ ~resp'.verif
                /\ UNCHANGED <<usuarios, tokens>> )
        /\ resp'.op \in OpsProtegidas
           => /\ resp'.codigo # "CUENTA_BLOQUEADA"
              /\ ( /\ resp'.op = "obtener_documento"
                   /\ esta_bloqueado(usuarios[resp'.u])
                   /\ usuarios[resp'.u].activo
                   /\ DocumentoActivo(resp')
                   /\ puede_acceder_documento(usuarios[resp'.u], resp'.doc[1])
                   /\ ~requiere_otp_para_accion("ver", resp'.doc[1].nivel_seguridad,
                                                usuarios[resp'.u].rol) )
                 => resp'.estatus = 200 ]_vars

\* C5 happens: an account that holds a token has been locked by failed
\* logins and its next login is answered 423 without a password check.
C5_Testigo ==
    /\ resp.op = "login"
    /\ resp.u \in tokens
    /\ esta_bloqueado(usuarios[resp.u])
    /\ resp.estatus = 423
    /\ ~resp.verif

\* C6: every request of an inactive account is rejected.
C6_InactivoRechazado ==
    (resp.op # "ninguna" /\ resp.u \in Usuarios /\ ~usuarios[resp.u].activo)
        => resp.estatus \in {401, 429}

\* C7: for an active user, a request for a document id that names no row is
\* answered 404 DOCUMENTO_NO_ENCONTRADO and one for a row that is not active
\* 410 DOCUMENTO_NO_DISPONIBLE, whoever asks.
C7_InexistenteONoDisponible ==
    (resp.op \in OpsConDocumento /\ usuarios[resp.u].activo)
        => /\ resp.doc = Nada
              => (resp.estatus = 404 /\ resp.codigo = "DOCUMENTO_NO_ENCONTRADO")
           /\ (resp.doc # Nada /\ resp.doc[1].estado # "activo")
              => (resp.estatus = 410 /\ resp.codigo = "DOCUMENTO_NO_DISPONIBLE")

\* C8: a request during which the user query or the document query fails is
\* not answered 200 and changes neither users nor documents; a request whose
\* TOTP verification fails internally is answered as a wrong code and
\* changes no user row.
C8_FallaCierra ==
    [][ /\ resp'.falla \in {"bd_usuario", "bd_documento"}
           => (resp'.estatus # 200 /\ UNCHANGED <<usuarios, documentos>>)
        /\ (resp'.falla = "totp" /\ resp'.verif)
           => ( /\ resp'.estatus # 200
                /\ resp'.codigo \in {"OTP_INVALIDO", "Codigo de validacion incorrecto"}
                /\ UNCHANGED <<usuarios, documentos>> ) ]_vars

\* C8 happens: a user whose OTP is active asks for a document that needs a
\* second factor with a code that is valid now, the verification fails
\* internally, and the request is answered 401 OTP_INVALIDO.
C8_Testigo ==
    /\ resp.op = "obtener_documento"
    /\ resp.falla = "totp"
    /\ resp.verif
    /\ usuarios[resp.u].otp_habilitado
    /\ verify(resp.cod, usuarios[resp.u].clave_otp_base32[1], ahora)
    /\ resp.estatus = 401
    /\ resp.codigo = "OTP_INVALIDO"

\* C9: in every state, a row with otp_habilitado holds a secret.
C9_HabilitadoImplicaClave ==
    \A u \in Usuarios :
        usuarios[u].otp_habilitado => usuarios[u].clave_otp_base32 # Nada

\* C9 happens: a user has begun provisioning, confirmed the activation and
\* had a code verified: the row is enabled and holds its secret.
C9_Testigo ==
    \E u \in Usuarios :
        /\ resp.op = "validar_otp_route"
        /\ resp.u = u
        /\ resp.codigo = "OTP valido"
        /\ usuarios[u].otp_habilitado
        /\ usuarios[u].clave_otp_base32 # Nada

\* C10: the second-factor state of a row changes only from NotConfigured to
\* PendingActivation, from PendingActivation to Active, and from Active or
\* PendingActivation to NotConfigured.
C10_SoloTransicionesPermitidas ==
    [][ \A u \in Usuarios :
            \/ EstadoOTP(usuarios'[u]) = EstadoOTP(usuarios[u])
            \/ <<EstadoOTP(usuarios[u]), EstadoOTP(usuarios'[u])>> \in
                  { <<"NotConfigured", "PendingActivation">>,
                    <<"PendingActivation", "Active">>,
                    <<"Active", "NotConfigured">>,
                    <<"PendingActivation", "NotConfigured">> } ]_vars

\* C11: a confirmation (configurar_otp_inicial with a code) that finds an
\* active user in PendingActivation and carries six ASCII digits: when the
\* code is the pending secret's code of the current step or of a neighbouring
\* one, the answer is 200, the row becomes enabled and its last verification
\* is the time of the request; with any other such code the answer is a
\* refusal and the secret, the enabled flag and the last verification stay
\* as they were.
C11_ConfirmarActivaSoloConCodigoValido ==
    [][ ( /\ resp'.op = "configurar_otp_inicial"
          /\ resp'.cod # Nada
          /\ SeisDigitosASCII(resp'.cod)
          /\ usuarios[resp'.u].activo
          /\ EstadoOTP(usuarios[resp'.u]) = "PendingActivation" )
        => LET u == resp'.u
               usr == usuarios[u]
           IN  IF \E i \in -1..1 :
                     resp'.cod = at(usr.clave_otp_base32[1], timecode(ahora) + i)
               THEN /\ resp'.estatus = 200
                    /\ usuarios'[u].otp_habilitado
                    /\ usuarios'[u].fecha_ultimo_otp = <<ahora>>
                    /\ usuarios'[u].clave_otp_base32 = usr.clave_otp_base32
               ELSE /\ resp'.estatus # 200
                    /\ usuarios' = usuarios ]_vars

\* C11 happens: a confirmation with the code of the step before the current
\* one has activated a pending secret.
C11_Testigo ==
    /\ resp.op = "configurar_otp_inicial"
    /\ resp.cod # Nada
    /\ resp.estatus = 200
    /\ usuarios[resp.u].otp_habilitado
    /\ usuarios[resp.u].fecha_ultimo_otp = <<ahora>>
    /\ resp.cod = at(usuarios[resp.u].clave_otp_base32[1], timecode(ahora) - 1)

\* C12: a confirmation (configurar_otp_inicial with a code) that finds an
\* active user in NotConfigured is answered 400 NO_HAY_CONFIGURACION_PENDIENTE
\* whatever the code, well formed or not, without a TOTP verification, and
\* the table of users is left as it was.
C12_ConfirmarSinConfiguracionPendiente ==
    [][ ( /\ resp'.op = "configurar_otp_inicial"
          /\ resp'.cod # Nada
          /\ usuarios[resp'.u].activo
          /\ EstadoOTP(usuarios[resp'.u]) = "NotConfigured" )
        => ( /\ resp'.estatus = 400
             /\ resp'.codigo = "NO_HAY_CONFIGURACION_PENDIENTE"
             /\ ~resp'.verif
             /\ usuarios' = usuarios ) ]_vars

\* C12 happens: a user with no secret sent a confirmation with a malformed
\* code and was told there is no pending configuration.
C12_Testigo ==
    /\ resp.op = "configurar_otp_inicial"
    /\ resp.cod \in CodigosMalFormados
    /\ resp.codigo = "NO_HAY_CONFIGURACION_PENDIENTE"
    /\ EstadoOTP(usuarios[resp.u]) = "NotConfigured"

\* C13: Usuario.activar_otp_con_validacion returns True with the row enabled
\* and stamped, and it returns False only when the row holds no secret or the
\* code is not a code of that secret for the current step or a neighbouring
\* one; so a pending secret and a valid code activate.
C13_MetodoActivaConCodigoValido ==
    resp.op = "activar_otp_con_validacion" =>
        LET usr == usuarios[resp.u]
        IN  IF resp.codigo = "True"
            THEN usr.otp_habilitado /\ usr.fecha_ultimo_otp = <<ahora>>
            ELSE \/ usr.clave_otp_base32 = Nada
                 \/ ~ \E i \in -1..1 :
                        resp.cod = at(usr.clave_otp_base32[1], timecode(ahora) + i)

\* C14: after a provisioning request (generar_otp_route, or
\* configurar_otp_inicial without a code) was answered 200 with a secret, the
\* row of the user holds that secret, the latest one handed out, with OTP not
\* enabled; so only a code of the latest secret can confirm the activation.
C14_ProvisionGuardaLaUltimaClave ==
    ( /\ resp.op \in {"generar_otp_route", "configurar_otp_inicial"}
      /\ resp.cod = Nada
      /\ resp.estatus = 200 )
    => ( /\ usuarios[resp.u].clave_otp_base32 = resp.clave
         /\ ~usuarios[resp.u].otp_habilitado )

\* C15: a verification (validar_otp_route past its rate limit, for an active
\* user) that finds the row not Active never answers valid and leaves the
\* table of users as it was; one that finds the row Active answers valid
\* exactly when the code is the secret's code of the current step or of a
\* neighbouring one, and then only the last verification of that row
\* changes, to the time of the request; a refused code changes nothing.
C15_VerificarSoloEnActivo ==
    [][ ( /\ resp'.op = "validar_otp_route"
          /\ resp'.estatus # 429
          /\ usuarios[resp'.u].activo )
        => LET u == resp'.u
               usr == usuarios[u]
               valido == /\ resp'.cod # Nada
                         /\ usr.clave_otp_base32 # Nada
                         /\ \E i \in -1..1 :
                              resp'.cod = at(usr.clave_otp_base32[1],
                                             timecode(ahora) + i)
           IN  IF EstadoOTP(usr) # "Active"
               THEN resp'.codigo # "OTP valido" /\ usuarios' = usuarios
               ELSE /\ (resp'.codigo = "OTP valido") <=> valido
                    /\ usuarios' = IF valido
                                   THEN [usuarios EXCEPT ![u].fecha_ultimo_otp = <<ahora>>]
                                   ELSE usuarios ]_vars

\* C15 happens: an Active row had the code of the next step accepted and its
\* last verification is the time of the request.
C15_Testigo ==
    /\ resp.op = "validar_otp_route"
    /\ resp.codigo = "OTP valido"
    /\ EstadoOTP(usuarios[resp.u]) = "Active"
    /\ resp.cod = at(usuarios[resp.u].clave_otp_base32[1], timecode(ahora) + 1)
    /\ usuarios[resp.u].fecha_ultimo_otp = <<ahora>>

\* C16: a reset by an active user is answered 200 whatever the state of the
\* row, and leaves it with no secret, OTP not enabled and no last
\* verification, the rest of the row and the other rows as they were;
\* resetting the row it leaves gives the same row again; and a row without
\* a secret never has a code accepted, by a verification request or by a
\* confirmation, until provisioning stores a secret again.
C16_ResetearLimpiaYEsIdempotente ==
    [][ /\ ( resp'.op = "resetear_configuracion_otp" /\ usuarios[resp'.u].activo )
           => LET u == resp'.u
              IN  /\ resp'.estatus = 200
                  /\ usuarios' = [usuarios EXCEPT ![u].clave_otp_base32 = Nada,
                                                  ![u].otp_habilitado = FALSE,
                                                  ![u].fecha_ultimo_otp = Nada]
                  /\ resetear_otp(usuarios'[u]) = usuarios'[u]
        /\ ( /\ resp'.op \in {"validar_otp_route", "configurar_otp_inicial"}
             /\ resp'.cod # Nada
             /\ EstadoOTP(usuarios[resp'.u]) = "NotConfigured" )
           => ( /\ resp'.codigo # "OTP valido"
                /\ resp'.estatus # 200
                /\ ~resp'.verif
                /\ EstadoOTP(usuarios'[resp'.u]) = "NotConfigured" ) ]_vars

\* C16 happens: after the user had sent a verification request, a reset was
\* answered 200 and the row holds no secret and no last verification.
C16_Testigo ==
    /\ resp.op = "resetear_configuracion_otp"
    /\ resp.estatus = 200
    /\ EstadoOTP(usuarios[resp.u]) = "NotConfigured"
    /\ usuarios[resp.u].fecha_ultimo_otp = Nada
    /\ rate_limit_cache[<<"validar_otp_route", 1>>] # Nada

\* C17: with s the time step of the request, a verification of an Active row
\* accepts the code its secret has for step p exactly when p is s-1, s or
\* s+1; the codes of s-2 and s+2 and of steps farther away are refused.
C17_VentanaDeUnPaso ==
    [][ ( /\ resp'.op = "validar_otp_route"
          /\ resp'.estatus # 429
          /\ usuarios[resp'.u].activo
          /\ EstadoOTP(usuarios[resp'.u]) = "Active" )
        => LET k == usuarios[resp'.u].clave_otp_base32[1]
               s == timecode(ahora)
           IN  \A p \in 0..(s + 3) :
                   resp'.cod = at(k, p) =>
                       IF p < s - 1 \/ p > s + 1
                       THEN resp'.codigo = "OTP invalido"
                       ELSE resp'.codigo = "OTP valido" ]_vars

\* C17 happens: the code of two steps ago was refused for an Active row.
C17_Testigo ==
    /\ resp.op = "validar_otp_route"
    /\ resp.codigo = "OTP invalido"
    /\ EstadoOTP(usuarios[resp.u]) = "Active"
    /\ resp.cod = at(usuarios[resp.u].clave_otp_base32[1], timecode(ahora) - 2)

\* C18: a login for an existing, active account that passes the rate limit:
\* while the stored count of failed attempts is below five the password is
\* checked, and a wrong password is answered 401 and raises the count by
\* exactly one; once the count is five, which five wrong passwords in a row
\* from zero make it, the attempt is answered 423 CUENTA_BLOQUEADA without a
\* password check and the count stays as it is.  An attempt the rate limit
\* stops is refused without a password check and without a change as well.
C18_CincoFallosBloquean ==
    [][ ( /\ resp'.op = "login"
          /\ resp'.u \in Usuarios
          /\ usuarios[resp'.u].activo )
        => LET u == resp'.u
               n == usuarios[u].intentos_login_fallidos
           IN  IF resp'.estatus = 429 THEN
                   ~resp'.verif /\ UNCHANGED <<usuarios, tokens>>
               ELSE IF n < MaxIntentosFallidos THEN
                   /\ resp'.verif
                   /\ resp'.estatus \in {200, 401}
                   /\ resp'.estatus = 401 =>
                        usuarios' = [usuarios EXCEPT ![u].intentos_login_fallidos = n + 1]
               ELSE
                   /\ resp'.estatus = 423
                   /\ resp'.codigo = "CUENTA_BLOQUEADA"
                   /\ ~resp'.verif
                   /\ UNCHANGED <<usuarios, tokens>> ]_vars

\* C18 happens: the account never logged in, five wrong passwords raised its
\* count from zero to five, and the sixth attempt was answered 423 without a
\* password check.
C18_Testigo ==
    /\ resp.op = "login"
    /\ tokens = {}
    /\ usuarios[resp.u].intentos_login_fallidos = MaxIntentosFallidos
    /\ resp.estatus = 423
    /\ ~resp.verif

\* C19: once the stored count of failed attempts of an account is five or
\* more, no request changes it: every login for the account is refused (423,
\* or 429 by the rate limit, or 401 when the account is deactivated) without
\* a password check and without issuing tokens, whatever password it
\* carries, and neither logins nor token refreshes nor any other request
\* lower the count, so the account stays locked.
C19_BloqueadoPermanece ==
    [][ \A u \in Usuarios :
          usuarios[u].intentos_login_fallidos >= MaxIntentosFallidos =>
            /\ usuarios'[u].intentos_login_fallidos =
                   usuarios[u].intentos_login_fallidos
            /\ (resp'.op = "login" /\ resp'.u = u) =>
                   /\ resp'.estatus \in {423, 429, 401}
                   /\ resp'.estatus = 401 => ~usuarios[u].activo
                   /\ ~resp'.verif
                   /\ tokens' = tokens ]_vars

\* C19 happens: every attempt both addresses are allowed has been made; five
\* of them failed, and the latest finds the account locked and is answered
\* 423 without a password check.
C19_Testigo ==
    /\ resp.op = "login"
    /\ resp.estatus = 423
    /\ ~resp.verif
    /\ usuarios[resp.u].intentos_login_fallidos >= MaxIntentosFallidos
    /\ \A ip \in IPs :
          /\ rate_limit_cache[<<"login", ip>>] # Nada
          /\ rate_limit_cache[<<"login", ip>>][1].intentos = MaxIntentosLogin

\* C20: after a login was answered 200 the stored count of failed attempts
\* of the account is 0, so the failures before a success do not add to the
\* failures after it.
C20_ExitoReiniciaContador ==
    (resp.op = "login" /\ resp.estatus = 200)
        => usuarios[resp.u].intentos_login_fallidos = 0

\* C21: whatever way confirmations, verifications and resets of the same
\* user overlap, the stored row is one a serial run of them leaves; in
\* particular, once no request is in flight, no row is enabled without a
\* secret, and a row without a secret has no last verification.
C21_ConcurrentesComoEnSerie ==
    (\A h \in Hilos : sesiones[h] = Nada) =>
        \A u \in Usuarios :
            usuarios[u].clave_otp_base32 = Nada =>
                /\ ~usuarios[u].otp_habilitado
                /\ usuarios[u].fecha_ultimo_otp = Nada

\* C22: when provisioning requests (configurar_otp_inicial without a code)
\* of one user overlap and no confirmation has enabled the row since the
\* committing request loaded it, each commit leaves the row with the secret
\* of the request that commits and OTP not enabled, so the row ends in
\* PendingActivation with the secret of the last writer; a confirmation
\* that loads the row as it is then stored activates with a code of the
\* stored secret and is refused, without a change, with a code of the
\* other secret.
C22_GanaElUltimoEscritor ==
    [][ \A h \in Hilos :
          (sesiones[h] # Nada /\ sesiones'[h] = Nada) =>
            LET s == sesiones[h][1]
                u == s.u
            IN  /\ ( /\ s.op = "configurar_otp_inicial"
                     /\ s.cod = Nada
                     /\ usuarios[u].otp_habilitado => s.usuario.otp_habilitado ) =>
                     /\ resp'.estatus = 200
                     /\ resp'.clave = <<s.k>>
                     /\ usuarios'[u].clave_otp_base32 = <<s.k>>
                     /\ EstadoOTP(usuarios'[u]) = "PendingActivation"
                /\ ( /\ s.op = "configurar_otp_inicial"
                     /\ s.cod # Nada
                     /\ s.usuario = usuarios[u]
                     /\ EstadoOTP(usuarios[u]) = "PendingActivation" ) =>
                     IF s.cod = at(usuarios[u].clave_otp_base32[1], timecode(ahora))
                     THEN resp'.estatus = 200 /\ EstadoOTP(usuarios'[u]) = "Active"
                     ELSE resp'.estatus = 400 /\ usuarios' = usuarios ]_vars

\* C22 happens: two provisioning requests loaded the row before either
\* committed; one has committed its secret and the other, whose copy does
\* not hold that secret, is about to commit its own.
C22_Testigo ==
    \E h \in Hilos :
        /\ sesiones[h] # Nada
        /\ sesiones[h][1].op = "configurar_otp_inicial"
        /\ sesiones[h][1].cod = Nada
        /\ resp.op = "configurar_otp_inicial"
        /\ resp.cod = Nada
        /\ resp.estatus = 200
        /\ usuarios[resp.u].clave_otp_base32 = resp.clave
        /\ resp.clave # <<sesiones[h][1].k>>
        /\ sesiones[h][1].usuario.clave_otp_base32 # resp.clave

\* the user of the request is active and is neither the owner of the
\* document nor an admin
Ajeno(r) ==
    /\ usuarios[r.u].rol # "admin"
    /\ r.doc[1].propietario_id # r.u

\* a document route was asked for an existing, active document by an active
\* user and no collaborator failed: the request reached the permission block
LlegaAPermisos(r) ==
    /\ r.op \in OpsConDocumento
    /\ DocumentoActivo(r)
    /\ r.falla = "ninguna"
    /\ usuarios[r.u].activo

\* the permission block let the request through
PermisoConcedido(r) == r.codigo # "PERMISOS_INSUFICIENTES"

\* C23: a request of an admin for view, edit, delete or download of an
\* active document, whoever owns it and whatever its level, is never
\* answered PERMISOS_INSUFICIENTES.
C23_AdminPuedeTodo ==
    (LlegaAPermisos(resp) /\ usuarios[resp.u].rol = "admin")
        => PermisoConcedido(resp)

\* C23 happens: an admin deleted a secret document of another user.
C23_Testigo ==
    /\ resp.op = "eliminar_documento"
    /\ resp.estatus = 200
    /\ usuarios[resp.u].rol = "admin"
    /\ resp.doc # Nada
    /\ resp.doc[1].propietario_id # resp.u
    /\ resp.doc[1].nivel_seguridad = "secreto"

\* C24: a request of the owner of an active document for view, edit, delete
\* or download is never answered PERMISOS_INSUFICIENTES, whatever the role
\* of the owner and the level of the document.
C24_PropietarioPuedeTodo ==
    (LlegaAPermisos(resp) /\ resp.doc[1].propietario_id = resp.u)
        => PermisoConcedido(resp)

\* C24 happens: a user of role usuario passed the permission block to edit
\* a secret document of their own.
C24_Testigo ==
    /\ resp.op = "actualizar_documento"
    /\ LlegaAPermisos(resp)
    /\ PermisoConcedido(resp)
    /\ usuarios[resp.u].rol = "usuario"
    /\ resp.doc[1].propietario_id = resp.u
    /\ resp.doc[1].nivel_seguridad = "secreto"
    /\ resp.estatus = 200

\* C25: a delete request of a user who is neither admin nor the owner of
\* the active document is answered 403 PERMISOS_INSUFICIENTES, for a
\* supervisor as for a user of role usuario and for every level, and the
\* document stays.
C25_EliminarSoloPropietarioOAdmin ==
    [][ ( /\ resp'.op = "eliminar_documento"
          /\ LlegaAPermisos(resp')
          /\ Ajeno(resp') )
        => ( /\ resp'.estatus = 403
             /\ resp'.codigo = "PERMISOS_INSUFICIENTES"
             /\ documentos' = documentos ) ]_vars

\* C25 happens: a supervisor was refused the delete of a confidential
\* document of another user, which the supervisor may view and edit.
C25_Testigo ==
    /\ resp.op = "eliminar_documento"
    /\ LlegaAPermisos(resp)
    /\ Ajeno(resp)
    /\ usuarios[resp.u].rol = "supervisor"
    /\ resp.doc[1].nivel_seguridad = "confidencial"
    /\ resp.codigo = "PERMISOS_INSUFICIENTES"
    /\ documentos[resp.d].estado = "activo"

\* C26: a view or download request of a user who is neither admin nor the
\* owner of the active document passes the permission block exactly when the
\* document is public, or it is confidential and the user is a supervisor.
C26_VerYDescargarAjenos ==
    ( /\ resp.op \in {"obtener_documento", "descargar_documento"}
      /\ LlegaAPermisos(resp)
      /\ Ajeno(resp) )
    => ( PermisoConcedido(resp)
           <=> \/ resp.doc[1].nivel_seguridad = "publico"
               \/ /\ resp.doc[1].nivel_seguridad = "confidencial"
                  /\ usuarios[resp.u].rol = "supervisor" )

\* C26 happens: a supervisor was refused the download of a secret document
\* of another user.
C26_Testigo ==
    /\ resp.op = "descargar_documento"
    /\ LlegaAPermisos(resp)
    /\ Ajeno(resp)
    /\ usuarios[resp.u].rol = "supervisor"
    /\ resp.doc[1].nivel_seguridad = "secreto"
    /\ resp.codigo = "PERMISOS_INSUFICIENTES"

\* C27 as stated: an edit request of a user who is neither admin nor the
\* owner of the active document passes the permission block exactly when
\* the user is a supervisor and the document is confidential.
C27_EditarAjenoSoloConfidencial ==
    ( /\ resp.op = "actualizar_documento"
      /\ LlegaAPermisos(resp)
      /\ Ajeno(resp) )
    => ( PermisoConcedido(resp)
           <=> /\ usuarios[resp.u].rol = "supervisor"
               /\ resp.doc[1].nivel_seguridad = "confidencial" )

\* C27 amended: an edit request of a user who is neither admin nor the
\* owner of the active document passes the permission block exactly when
\* the user is a supervisor and the document is not secret, so a supervisor
\* edits the public documents of others as well as the confidential ones.
C27_EditarAjenoNoSecreto ==
    ( /\ resp.op = "actualizar_documento"
      /\ LlegaAPermisos(resp)
      /\ Ajeno(resp) )
    => ( PermisoConcedido(resp)
           <=> /\ usuarios[resp.u].rol = "supervisor"
               /\ resp.doc[1].nivel_seguridad # "secreto" )

\* C27 happens: a supervisor edited a public document of another user.
C27_Testigo ==
    /\ resp.op = "actualizar_documento"
    /\ LlegaAPermisos(resp)
    /\ Ajeno(resp)
    /\ usuarios[resp.u].rol = "supervisor"
    /\ resp.doc[1].nivel_seguridad = "publico"
    /\ resp.estatus = 200

\* C28: for an action name outside ver, editar, eliminar and descargar the
\* decorator never passes the request on to the handler, whoever the user
\* and whatever the document; on an active document its answer is the
\* ordinary denial 403 PERMISOS_INSUFICIENTES, not an error, and no row,
\* token or counter changes.
C28_AccionDesconocidaDenegada ==
    [][ ( /\ resp'.op = "funcion_decorada"
          /\ resp'.accion \notin Acciones )
        => ( /\ resp'.codigo # "PASA"
             /\ resp'.estatus \in {400, 403, 404, 410}
             /\ DocumentoActivo(resp')
                  => ( /\ resp'.estatus = 403
                       /\ resp'.codigo = "PERMISOS_INSUFICIENTES" )
             /\ UNCHANGED <<usuarios, documentos, tokens, ahora,
                            rate_limit_cache, sesiones>> ) ]_vars

\* C28 happens: the admin was denied an action of an unknown name on an
\* active document.
C28_Testigo ==
    /\ resp.op = "funcion_decorada"
    /\ resp.accion = "compartir"
    /\ usuarios[resp.u].rol = "admin"
    /\ DocumentoActivo(resp)
    /\ resp.estatus = 403
    /\ resp.codigo = "PERMISOS_INSUFICIENTES"

\* C29: for a secret document the matrix requires a code to view, to delete
\* and to download, for every role.
C29_SecretoSiempreRequiere ==
    ( /\ resp.op = "requiere_otp_para"
      /\ resp.nivel_seguridad = "secreto"
      /\ resp.accion \in {"ver", "eliminar", "descargar"} )
    => resp.requiere

\* C29 happens: the matrix was asked about the admin viewing a secret
\* document and required a code.
C29_Testigo ==
    /\ resp.op = "requiere_otp_para"
    /\ resp.nivel_seguridad = "secreto"
    /\ resp.accion = "ver"
    /\ usuarios[resp.u].rol = "admin"
    /\ resp.requiere

\* C30: for a confidential document the matrix requires no code to view, a
\* code to delete for every role, and a code to download exactly for the
\* role usuario; for a public document it requires no code to view or to
\* download, and a code to delete exactly for the roles other than admin.
C30_MatrizConfidencialYPublico ==
    resp.op = "requiere_otp_para" =>
        LET rol == usuarios[resp.u].rol
        IN  /\ resp.nivel_seguridad = "confidencial" =>
                /\ resp.accion = "ver" => ~resp.requiere
                /\ resp.accion = "eliminar" => resp.requiere
                /\ resp.accion = "descargar" => (resp.requiere <=> rol = "usuario")
            /\ resp.nivel_seguridad = "publico" =>
                /\ resp.accion = "ver" => ~resp.requiere
                /\ resp.accion = "descargar" => ~resp.requiere
                /\ resp.accion = "eliminar" => (resp.requiere <=> rol # "admin")

\* C30 happens: the matrix was asked about a supervisor downloading a
\* confidential document and required no code.
C30_Testigo ==
    /\ resp.op = "requiere_otp_para"
    /\ resp.nivel_seguridad = "confidencial"
    /\ resp.accion = "descargar"
    /\ usuarios[resp.u].rol = "supervisor"
    /\ ~resp.requiere

\* C31: the matrix answers for every action name and every level, and its
\* answer is "not required" for an action it does not list under the level
\* (editar, crear, any other name) and for a level outside publico,
\* confidencial and secreto, whatever the role.
C31_MatrizTotalPorDefectoNoRequiere ==
    resp.op = "requiere_otp_para" =>
        /\ resp.requiere \in BOOLEAN
        /\ ( \/ resp.accion \notin {"ver", "eliminar", "descargar"}
             \/ resp.nivel_seguridad \notin Niveles )
           => ~resp.requiere

\* C31 happens: the matrix was asked about a user of role usuario editing a
\* secret document and required no code.
C31_Testigo ==
    /\ resp.op = "requiere_otp_para"
    /\ resp.accion = "editar"
    /\ resp.nivel_seguridad = "secreto"
    /\ usuarios[resp.u].rol = "usuario"
    /\ ~resp.requiere

\* C32: no view, edit, re-classification, download or delete request, by
\* whichever user, changes the number of documents or the propietario_id of
\* any of them, so every document keeps the owner it was created with.
C32_PropietarioNoCambia ==
    [][ /\ Len(documentos') = Len(documentos)
        /\ \A d \in 1..Len(documentos) :
              documentos'[d].propietario_id = documentos[d].propietario_id ]_vars

\* C32 happens: a user re-classified a document of another user and the
\* document still belongs to that other user.
C32_Testigo ==
    /\ resp.op = "actualizar_documento"
    /\ resp.estatus = 200
    /\ resp.doc # Nada
    /\ resp.doc[1].propietario_id # resp.u
    /\ documentos[resp.d].nivel_seguridad # resp.doc[1].nivel_seguridad
    /\ documentos[resp.d].propietario_id = resp.doc[1].propietario_id

\* C36: a successful delete leaves the document in state eliminado; a
\* document in state eliminado is never changed again, so it never returns
\* to activo; and every view, edit, download or delete request on it, by
\* the admin and the owner as by anyone else, is answered 410
\* DOCUMENTO_NO_DISPONIBLE.
C36_EliminadoEsDefinitivo ==
    [][ /\ ( /\ resp'.op = "eliminar_documento"
             /\ resp'.estatus = 200 )
           => documentos'[resp'.d].estado = "eliminado"
        /\ \A d \in 1..Len(documentos) :
              documentos[d].estado = "eliminado" => documentos'[d] = documentos[d]
        /\ ( /\ resp'.op \in OpsConDocumento
             /\ resp'.doc # Nada
             /\ resp'.doc[1].estado = "eliminado" )
           => ( /\ resp'.estatus = 410
                /\ resp'.codigo = "DOCUMENTO_NO_DISPONIBLE" ) ]_vars

\* C36 happens: the owner of a deleted document asked to edit it and was
\* answered 410, and the document is still deleted.
C36_Testigo ==
    /\ resp.op = "actualizar_documento"
    /\ resp.doc # Nada
    /\ resp.doc[1].estado = "eliminado"
    /\ resp.doc[1].propietario_id = resp.u
    /\ resp.estatus = 410
    /\ documentos[resp.d].estado = "eliminado"

\* C33: when a login request in flight ends after a password check, the
\* account was not yet locked in the table (so no more than five checks
\* fail per count of five), and if the check failed the stored
\* intentos_login_fallidos is one more than it was.
C33_NingunFalloSePierde ==
    [][ \A h \in Hilos :
          ( /\ sesiones[h] # Nada
            /\ sesiones'[h] = Nada
            /\ resp'.op = "login"
            /\ resp'.verif )
          => LET u == sesiones[h][1].u
             IN  /\ ~esta_bloqueado(usuarios[u])
                 /\ resp'.estatus = 401 =>
                      usuarios'[u].intentos_login_fallidos
                        = usuarios[u].intentos_login_fallidos + 1 ]_vars

\* C34: while no user has had a code verified, no view and no download
\* request on a document that was stored as secret is answered with the
\* document (200), by whichever user and whatever requests came before,
\* re-classifications included.
C34_SecretoSoloConSegundoFactor ==
    ( /\ resp.op \in {"obtener_documento", "descargar_documento"}
      /\ resp.doc # Nada
      /\ \A u \in Usuarios : usuarios[u].fecha_ultimo_otp = Nada )
    => resp.estatus # 200

\* C35: a verification request or a view of the secret document that
\* carries the code the previous request of the same user had accepted is
\* accepted too; and for an Active row, a code of its secret whose step is
\* within one step of the row's last accepted verification and within one
\* step of the clock is accepted, so an accepted code keeps being accepted
\* while the clock stays within one step of the code's step.
C35_CodigoAceptadoSeAceptaOtraVez ==
    [][ ( /\ resp'.op \in {"validar_otp_route", "obtener_documento"}
          /\ resp'.cod # Nada
          /\ resp'.estatus # 429
          /\ resp'.op = "obtener_documento" => DocumentoActivo(resp') )
        => LET usr == usuarios[resp'.u]
           IN  /\ resp'.repetido => Aceptado(resp')
               /\ ( /\ EstadoOTP(usr) = "Active"
                    /\ usr.fecha_ultimo_otp # Nada
                    /\ \E p \in 0..(timecode(ahora) + 1) :
                          /\ resp'.cod = at(usr.clave_otp_base32[1], p)
                          /\ p - timecode(usr.fecha_ultimo_otp[1]) \in -1..1
                          /\ p - timecode(ahora) \in -1..1 )
                  => Aceptado(resp') ]_vars

\* C35 happens: a view of the secret document was authorized by a code of
\* the step before the current one, which the request just before it, of
\* the same user, had already had accepted.
C35_Testigo ==
    /\ resp.op = "obtener_documento"
    /\ resp.repetido
    /\ Aceptado(resp)
    /\ resp.doc[1].nivel_seguridad = "secreto"
    /\ resp.cod = at(usuarios[resp.u].clave_otp_base32[1], timecode(ahora) - 1)

\* the OTP columns of the rows, and their counts of failed logins
ColumnasOTP(us) ==
    [u \in Usuarios |-> <<us[u].clave_otp_base32, us[u].otp_habilitado,
                          us[u].fecha_ultimo_otp>>]
Intentos(us) == [u \in Usuarios |-> us[u].intentos_login_fallidos]

\* C37: a login, whether it succeeds, fails or is refused, leaves the secret,
\* otp_habilitado and fecha_ultimo_otp of every row as they were; a token
\* refresh changes no row; the OTP requests and the document requests leave
\* the count of failed logins of every row as it was; and a login for an
\* unknown email or for a deactivated account changes no count.
C37_MarcoDeLasDosMaquinas ==
    [][ /\ resp'.op = "login" => ColumnasOTP(usuarios') = ColumnasOTP(usuarios)
        /\ resp'.op = "refrescar_token" => usuarios' = usuarios
        /\ resp'.op \in {"configurar_otp_inicial", "validar_otp_route",
                         "resetear_configuracion_otp", "obtener_documento"}
             => Intentos(usuarios') = Intentos(usuarios)
        /\ ( /\ resp'.op = "login"
             /\ \/ resp'.u \notin Usuarios
                \/ ~usuarios[resp'.u].activo )
             => Intentos(usuarios') = Intentos(usuarios) ]_vars

\* C37 happens: a login with a wrong password was counted for an account
\* whose OTP is active and has verified a code, and the OTP columns are
\* still there.
C37_Testigo ==
    /\ resp.op = "login"
    /\ resp.estatus = 401
    /\ resp.verif
    /\ usuarios[resp.u].intentos_login_fallidos >= 2
    /\ EstadoOTP(usuarios[resp.u]) = "Active"
    /\ usuarios[resp.u].fecha_ultimo_otp # Nada

\* C38: for an active user, requiere_rol with the listed roles passes the
\* request on exactly when the role of the user is one of them and answers
\* 403 otherwise; the monitoring route declared for supervisors and
\* administrators admits a supervisor and an admin, and the one declared
\* for administrators admits an admin.
C38_RolesAdmitidos ==
    usuarios[IF resp.u \in Usuarios THEN resp.u ELSE CuentaObservada].activo =>
        LET rol == usuarios[resp.u].rol
        IN  /\ resp.op = "requiere_admin" =>
                IF rol = "admin" THEN resp.codigo = "PASA" ELSE resp.estatus = 403
            /\ resp.op = "requiere_supervisor_o_admin" =>
                IF rol \in {"supervisor", "admin"}
                THEN resp.codigo = "PASA" ELSE resp.estatus = 403
            /\ ( resp.op = "obtener_metricas_performance"
                 /\ rol \in {"supervisor", "admin"} )
               => resp.estatus \notin {401, 403}
            /\ ( resp.op = "obtener_estadisticas_cache" /\ rol = "admin" )
               => resp.estatus \notin {401, 403}

\* the entry of a limiter key is live at time t: present and not expired
EntradaViva(e, t) == e # Nada /\ e[1].expira >= t

\* C39: for every login request and its key (login, client address): while
\* the entry of the key is live and counts fewer than maximo_intentos the
\* handler runs and the count grows by one with the expiry unchanged, so
\* that a window counts at most maximo_intentos runs; once it counts
\* maximo_intentos the request is answered 429, the handler does not run
\* and the entry is unchanged; with no live entry the handler runs and a
\* new window starts with count 1.  The live entries of the other keys are
\* never changed.
C39_VentanaDeFrecuencia ==
    [][ \A password_ok \in BOOLEAN, ip \in IPs :
          login(CuentaObservada, password_ok, ip) =>
            LET clave == <<"login", ip>>
                e == rate_limit_cache[clave]
                e2 == rate_limit_cache'[clave]
                viva == EntradaViva(e, ahora)
            IN  /\ e2 # Nada /\ e2[1].intentos <= MaxIntentosLogin
                /\ (viva /\ e[1].intentos >= MaxIntentosLogin) =>
                      /\ resp'.estatus = 429
                      /\ e2 = e
                      /\ usuarios' = usuarios /\ tokens' = tokens
                /\ (viva /\ e[1].intentos < MaxIntentosLogin) =>
                      /\ resp'.estatus # 429
                      /\ e2 = <<[intentos |-> e[1].intentos + 1,
                                 expira |-> e[1].expira]>>
                /\ ~viva =>
                      /\ resp'.estatus # 429
                      /\ e2 = <<[intentos |-> 1, expira |-> ahora + VentanaLogin]>>
                /\ \A c \in ClavesCache \ {clave} :
                      EntradaViva(rate_limit_cache[c], ahora)
                          => rate_limit_cache'[c] = rate_limit_cache[c]
      ]_vars

\* a login was answered 429 at the last instant of a full window, while
\* the other address had started a window of its own
C39_Testigo ==
    /\ resp.op = "login" /\ resp.estatus = 429
    /\ \E ip \in IPs :
          /\ EntradaViva(rate_limit_cache[<<"login", ip>>], ahora)
          /\ rate_limit_cache[<<"login", ip>>][1].intentos = MaxIntentosLogin
          /\ rate_limit_cache[<<"login", ip>>][1].expira = ahora
          /\ \E otra \in IPs \ {ip} :
                /\ rate_limit_cache[<<"login", otra>>] # Nada
                /\ rate_limit_cache[<<"login", otra>>][1].intentos < MaxIntentosLogin

====
